---- MODULE Spec2Model ----
(***************************************************************************)
(* CommuteCompute e-paper firmware: the refresh controllers of             *)
(* firmware/src/main-v6.cpp, main-v7.cpp, zones-v12.cpp and main-ble.cpp,  *)
(* and the tiered controller of main-tiered.cpp (SpecTiered).              *)
(*                                                                         *)
(* One action models one pass of loop() through one case of the state      *)
(* machine; the action Tick models time passing between two passes (the    *)
(* delay() calls and the blocking network and panel operations).           *)
(* `firmware` says which build is flashed; the globals that the builds     *)
(* share by name (currentState, partialRefreshCount, ...) are one          *)
(* variable each.                                                          *)
(*                                                                         *)
(* Time.  The firmware keeps time stamps (lastRefresh, lastFullRefresh,    *)
(* lastErrorTime, ...) and only ever reads them as millis() - stamp,       *)
(* compared with an interval.  The model keeps that difference: the        *)
(* variable sinceRefresh is millis() - lastRefresh, and so on.  An         *)
(* assignment stamp = now sets the difference to 0, Tick adds the elapsed  *)
(* time to every difference.  A difference stops growing at the largest    *)
(* interval it is compared with (beyond it every comparison has the same   *)
(* result); the 32-bit wrap of millis() after 49.7 days is not modelled.   *)
(* pairingStartTime is read only while pairingMode (STATE_PAIRING is       *)
(* entered from STATE_SETUP_REQUIRED alone, which assigns it), and         *)
(* lastPollTime only while pairingScreenShown (assigned when that becomes  *)
(* true): sincePairingStart and sincePoll hold the difference while the    *)
(* flag is set, and their largest value otherwise.                         *)
(*                                                                         *)
(* History.  ops, requests, failed and cycle record what the last pass did *)
(* to the panel and to the network; Tick clears them.  reportedChanged is  *)
(* what the last metadata answer said, response the answer the last pass   *)
(* processed.  backoffWait is the delay getBackoffDelay() returned at the  *)
(* last failed cycle, until that much time has passed.                     *)
(*                                                                         *)
(* Single calls.  decodeAndDrawZone of variants/main-zones.cpp (with       *)
(* include/base64.hpp) and fetchAndDrawZone of main-v7.cpp are also        *)
(* modelled on their own: the initial states hold every input of the call  *)
(* in response, and the action stores what the call returned and did in    *)
(* result.                                                                 *)
(***************************************************************************)
EXTENDS Integers, Sequences, FiniteSets, TLC

VARIABLES
    firmware,             \* which build runs: "v6", "v7", "v12", "ble", "tiered",
                          \* "zones", or "base64" (the decoder alone)
    currentState,         \* State currentState
    serverUrl,            \* char serverUrl[]
    wifiConnected,        \* bool wifiConnected
    initialDrawDone,      \* bool initialDrawDone
    setupRequired,        \* bool setupRequired (v6)
    sinceRefresh,         \* millis() - lastRefresh
    sinceFullRefresh,     \* millis() - lastFullRefresh
    partialRefreshCount,  \* int partialRefreshCount
    partialCount,         \* int partialCount (zones-v12.cpp)
    consecutiveErrors,    \* int consecutiveErrors
    sinceError,           \* millis() - lastErrorTime
    zoneChanged,          \* bool zoneChanged[ZONE_COUNT]
    pairingMode,          \* bool pairingMode (v6)
    sincePairingStart,    \* millis() - pairingStartTime (v6)
    pairingScreenShown,   \* static bool pairingScreenShown (v6)
    sincePoll,            \* millis() - lastPollTime (v6)
    waitingScreenShown,   \* static bool waitingScreenShown (v6)
    wifiSSID,             \* char wifiSSID[] (main-ble.cpp)
    wifiPassword,         \* char wifiPassword[] (main-ble.cpp)
    bleCredentialsReceived, \* bool bleCredentialsReceived (main-ble.cpp)
    bleInitialized,       \* static bool bleInitialized (main-ble.cpp)
    blePc,                \* where the BLE task is in CredentialCallbacks::onWrite:
                          \* "idle", "saveSettings" or "notify" (main-ble.cpp)
    bleWritten,           \* the characteristics written with a value since initBLE()
    devicePaired,         \* bool devicePaired (main-tiered.cpp)
    sinceTier1Refresh,    \* millis() - lastTier1Refresh (main-tiered.cpp)
    sinceTier2Refresh,    \* millis() - lastTier2Refresh (main-tiered.cpp)
    sinceTier3Refresh,    \* millis() - lastTier3Refresh (main-tiered.cpp)
    ops,                  \* display operations of the last pass, in order
    requests,             \* HTTP requests of the last pass, in order
    failed,               \* zones whose fetchAndDrawZone returned false in the last pass
    reportedChanged,      \* zones the last metadata answer reported as changed
    cycle,                \* the refresh cycle the last pass ran, if it ran one
                          \* (firstDraw: it started with initialDrawDone false)
    zoneBuffer,           \* uint8_t* zoneBuffer: "allocated" or "nullptr"
    response,             \* the server answer the last pass (or call) processed
    result,               \* what the call under study returned and did
    backoffWait           \* the delay getBackoffDelay() gave at the last failed cycle,
                          \* while it has not elapsed since; 0 otherwise

vars == <<firmware, currentState, serverUrl, wifiConnected, initialDrawDone,
          setupRequired, sinceRefresh, sinceFullRefresh, partialRefreshCount,
          partialCount, consecutiveErrors, sinceError, zoneChanged, pairingMode,
          sincePairingStart, pairingScreenShown, sincePoll, waitingScreenShown,
          wifiSSID, wifiPassword, bleCredentialsReceived, bleInitialized,
          blePc, bleWritten,
          devicePaired, sinceTier1Refresh, sinceTier2Refresh, sinceTier3Refresh,
          ops, requests, failed, reportedChanged, cycle, zoneBuffer, response,
          result, backoffWait>>

\* The globals only main-v6.cpp has, and those only main-ble.cpp has.
v6Vars == <<setupRequired, pairingMode, sincePairingStart, pairingScreenShown, sincePoll,
            waitingScreenShown>>
bleVars == <<wifiSSID, wifiPassword, bleCredentialsReceived, bleInitialized>>
bleTaskVars == <<blePc, bleWritten>>
tieredVars == <<devicePaired, sinceTier1Refresh, sinceTier2Refresh, sinceTier3Refresh>>

(***************************************************************************)
(* Bounds of the model.                                                    *)
(***************************************************************************)
\* consecutiveErrors is an int that grows with every failed cycle; no cycle
\* fails once it has reached MaxErrors.
MaxErrors == 6

(***************************************************************************)
(* Display and network operations, as recorded in ops and requests.        *)
(* An operation is <<kind, zone>>; zone is the index in ZONES[] of the     *)
(* zone being processed, 0 outside the zone loop.                          *)
(***************************************************************************)
FillScreen == <<"fillScreen", 0>>
RefreshFull == <<"refresh_FULL", 0>>
FillRectBlack(i) == <<"fillRect_BLACK", i>>
RefreshPartial(i) == <<"refresh_PARTIAL", i>>
LoadBMP(i) == <<"loadBMP", i>>

MetaRequest == <<"zones_metadata", 0>>
ZoneRequest(i) == <<"zone", i>>

\* The operations of one fetchAndDrawZone call, tagged with the zone's index.
TagZone(kinds, i) == [k \in 1..Len(kinds) |-> <<kinds[k], i>>]

\* The screens drawn outside the dashboard: fillScreen, text, refresh(REFRESH_FULL).
ScreenOps == <<FillScreen, RefreshFull>>

NoCycle == [active |-> FALSE, needsFull |-> FALSE, drawn |-> 0, startCount |-> 0,
            firstDraw |-> FALSE]

\* What a pass that runs no refresh cycle leaves in the history variables.
NoCycleHistory == /\ failed' = {}
                  /\ cycle' = NoCycle

\* No server answer was processed; no call under study was made.
\* The BLE task is outside onWrite and nothing was written.
NoBleTask == blePc = "idle" /\ bleWritten = {}

\* The globals of main-tiered.cpp in the builds that do not have them.
NotTiered == /\ devicePaired = FALSE
             /\ sinceTier1Refresh = 0 /\ sinceTier2Refresh = 0 /\ sinceTier3Refresh = 0

NoResponse == [kind |-> "none"]
NoResult == [kind |-> "none"]

Min(a, b) == IF a <= b THEN a ELSE b

(***************************************************************************)
(* main-v6.cpp                                                             *)
(***************************************************************************)
V6_REFRESH_INTERVAL_MS == 20000
V6_FULL_REFRESH_INTERVAL_MS == 600000
V6_MAX_PARTIAL_BEFORE_FULL == 30
V6_ZONE_COUNT == 5
V6_ZONE_BUFFER_SIZE == 40000
V6_MAX_BACKOFF_ERRORS == 5
V6_PAIRING_POLL_INTERVAL_MS == 5000
V6_PAIRING_TIMEOUT_MS == 600000

V6_SETUP_WAIT_MS == 3000

\* The delays of setup(): delay(500) after Serial.begin(), and delay(2500) after
\* showBootScreen(), which stamps lastFullRefresh.
V6_SerialDelay == 500
V6_BootScreenDelay == 2500

\* millis() when setup() returns.
V6_SetupMillis == V6_SerialDelay + V6_BootScreenDelay

DEFAULT_SERVER_URL == "https://einkptdashboard.vercel.app"

\* serverUrl values: the default (also what a paired webhook looks like) and a
\* stored value without "http".
ServerUrls == {DEFAULT_SERVER_URL, "example.local"}

\* strstr(serverUrl, "http") != nullptr
HasHttp(url) == url = DEFAULT_SERVER_URL

\* 1UL << n, for the shifts the firmware makes (n well below 32).
RECURSIVE Pow2(_)
Pow2(n) == IF n <= 0 THEN 1 ELSE 2 * Pow2(n - 1)

\* Variant of getBackoffDelay that shifts by consecutiveErrors itself.
V6_getBackoffDelay_NoCap(n) == Pow2(n) * 1000

\* unsigned long getBackoffDelay(): (1UL << min(consecutiveErrors, 5)) * 1000UL
V6_getBackoffDelay(n) == Pow2(Min(n, V6_MAX_BACKOFF_ERRORS)) * 1000

\* main-tiered.cpp: MAX_BACKOFF_ERRORS, and unsigned long getBackoffDelay():
\* (1UL << min(consecutiveErrors, MAX_BACKOFF_ERRORS)) * 1000UL
TIERED_MAX_BACKOFF_ERRORS == 5

TIERED_getBackoffDelay(n) == Pow2(Min(n, TIERED_MAX_BACKOFF_ERRORS)) * 1000

\* The answers of GET api/zones?metadata=1.  begin: http.begin() succeeded;
\* setupKey / trueLiteral: payload.indexOf("setup_required") > 0 and
\* payload.indexOf("true") > 0; changed: the zones the payload reports as changed.
MetaAnswer(b, c, k, t, ch) ==
    [begin |-> b, httpCode |-> c, setupKey |-> k, trueLiteral |-> t, changed |-> ch]

V6_MetaResponses ==
    { MetaAnswer(FALSE, 0, FALSE, FALSE, {}),
      MetaAnswer(TRUE, 500, FALSE, FALSE, {}),
      MetaAnswer(TRUE, -1, FALSE, FALSE, {}),
      MetaAnswer(TRUE, 200, TRUE, TRUE, {}),
      MetaAnswer(TRUE, 200, TRUE, FALSE, {1}),
      MetaAnswer(TRUE, 200, FALSE, TRUE, {1}),
      MetaAnswer(TRUE, 200, FALSE, FALSE, {1}) }

\* bool fetchZoneList(bool forceAll): the result, and the globals it writes.
V6_fetchZoneList(forceAll, resp) ==
    IF serverUrl = ""
    THEN [ok |-> FALSE, zoneChanged |-> zoneChanged, setupRequired |-> setupRequired,
          requests |-> <<>>]
    ELSE LET marked == [i \in 1..V6_ZONE_COUNT |-> TRUE]
         IN IF ~resp.begin
            THEN [ok |-> FALSE, zoneChanged |-> marked, setupRequired |-> setupRequired,
                  requests |-> <<>>]
            ELSE IF resp.httpCode # 200
            THEN [ok |-> FALSE, zoneChanged |-> marked, setupRequired |-> setupRequired,
                  requests |-> <<MetaRequest>>]
            ELSE IF resp.setupKey /\ resp.trueLiteral
            THEN [ok |-> FALSE, zoneChanged |-> marked, setupRequired |-> TRUE,
                  requests |-> <<MetaRequest>>]
            ELSE [ok |-> TRUE, zoneChanged |-> marked, setupRequired |-> FALSE,
                  requests |-> <<MetaRequest>>]

\* The answers of GET api/zone/<id>.  begin: http.begin() succeeded; contentLen:
\* http.getSize(); bytesRead: bytes received before the 15 s read timeout;
\* sig: the buffer starts with 'B','M'; loadBMP: bbep.loadBMP() == BBEP_SUCCESS.
ZoneAnswer(b, c, len, rd, sg, bmp) ==
    [begin |-> b, httpCode |-> c, contentLen |-> len, bytesRead |-> rd, sig |-> sg,
     loadBMP |-> bmp]

V6_ZoneResponses ==
    { ZoneAnswer(TRUE, 200, 9462, 9462, TRUE, TRUE),
      ZoneAnswer(FALSE, 0, 0, 0, FALSE, FALSE),
      ZoneAnswer(TRUE, 404, 0, 0, FALSE, FALSE),
      ZoneAnswer(TRUE, -11, 0, 0, FALSE, FALSE),
      ZoneAnswer(TRUE, 200, 0, 0, FALSE, FALSE),
      ZoneAnswer(TRUE, 200, 40001, 0, FALSE, FALSE),
      ZoneAnswer(TRUE, 200, 9462, 4096, TRUE, FALSE),
      ZoneAnswer(TRUE, 200, 9462, 9462, FALSE, FALSE),
      ZoneAnswer(TRUE, 200, 9462, 9462, TRUE, FALSE) }

\* Variant of fetchAndDrawZone that flashes the zone after drawing it.
V6_fetchAndDrawZone_DrawFirst(flash, resp) ==
    IF ~resp.begin THEN [ok |-> FALSE, ops |-> <<>>]
    ELSE IF resp.httpCode # 200 THEN [ok |-> FALSE, ops |-> <<>>]
    ELSE IF resp.contentLen <= 0 \/ resp.contentLen > V6_ZONE_BUFFER_SIZE
    THEN [ok |-> FALSE, ops |-> <<>>]
    ELSE IF resp.bytesRead # resp.contentLen \/ ~resp.sig THEN [ok |-> FALSE, ops |-> <<>>]
    ELSE LET flashOps == IF flash THEN <<"fillRect_BLACK", "refresh_PARTIAL">> ELSE <<>>
         IN [ok |-> resp.loadBMP, ops |-> <<"loadBMP">> \o flashOps]

\* bool fetchAndDrawZone(const ZoneDef& zone, bool flash): the result and the
\* kinds of the display operations it issues, in order.
V6_fetchAndDrawZone(flash, resp) ==
    IF ~resp.begin THEN [ok |-> FALSE, ops |-> <<>>]
    ELSE IF resp.httpCode # 200 THEN [ok |-> FALSE, ops |-> <<>>]
    ELSE IF resp.contentLen <= 0 \/ resp.contentLen > V6_ZONE_BUFFER_SIZE
    THEN [ok |-> FALSE, ops |-> <<>>]
    ELSE IF resp.bytesRead # resp.contentLen \/ ~resp.sig THEN [ok |-> FALSE, ops |-> <<>>]
    ELSE LET flashOps == IF flash THEN <<"fillRect_BLACK", "refresh_PARTIAL">> ELSE <<>>
         IN [ok |-> resp.loadBMP, ops |-> flashOps \o <<"loadBMP">>]

\* void doPartialRefresh(): bbep.refresh(REFRESH_PARTIAL, true); partialRefreshCount++
V6_doPartialRefresh(acc, i) ==
    [acc EXCEPT !.ops = Append(@, RefreshPartial(i)), !.count = @ + 1]

\* void doFullRefresh(): bbep.refresh(REFRESH_FULL, true)
V6_doFullRefresh(acc) == [acc EXCEPT !.ops = Append(@, RefreshFull)]

\* Variant of needsFull without the test of partialRefreshCount.
V6_needsFull_NoCeiling ==
    \/ ~initialDrawDone
    \/ sinceFullRefresh >= V6_FULL_REFRESH_INTERVAL_MS

\* Variant of needsFull without the test of initialDrawDone.
V6_needsFull_NoInitialDraw ==
    \/ sinceFullRefresh >= V6_FULL_REFRESH_INTERVAL_MS
    \/ partialRefreshCount >= V6_MAX_PARTIAL_BEFORE_FULL

\* bool needsFull = !initialDrawDone || (now - lastFullRefresh >= FULL_REFRESH_INTERVAL_MS)
\*                  || (partialRefreshCount >= MAX_PARTIAL_BEFORE_FULL)
V6_needsFull ==
    \/ ~initialDrawDone
    \/ sinceFullRefresh >= V6_FULL_REFRESH_INTERVAL_MS
    \/ partialRefreshCount >= V6_MAX_PARTIAL_BEFORE_FULL

\* Variant of the loop body that refreshes every drawn zone, also when needsFull.
V6_RenderZone_AlwaysPartial(i, needsFull, r, acc) ==
    LET called == [acc EXCEPT !.requests = Append(@, ZoneRequest(i)),
                              !.ops = @ \o TagZone(r.ops, i)]
    IN IF r.ok
       THEN V6_doPartialRefresh([called EXCEPT !.drawn = @ + 1], i)
       ELSE [called EXCEPT !.failed = @ \cup {i}]

\* Variant of the loop body that calls fetchAndDrawZone a second time when it failed.
V6_RenderZone_Retry(i, needsFull, r, acc) ==
    LET called == [acc EXCEPT !.requests = Append(@, ZoneRequest(i)),
                              !.ops = @ \o TagZone(r.ops, i)]
    IN IF r.ok
       THEN LET counted == [called EXCEPT !.drawn = @ + 1]
            IN IF ~needsFull THEN V6_doPartialRefresh(counted, i) ELSE counted
       ELSE [called EXCEPT !.requests = Append(@, ZoneRequest(i)),
                           !.ops = @ \o TagZone(r.ops, i),
                           !.failed = @ \cup {i}]

\* The body of the zone loop of STATE_RENDER for ZONES[i]; r is what
\* fetchAndDrawZone returns.  acc: drawn, partialRefreshCount, the display
\* operations and requests so far, the zones that failed, and the bookkeeping.
V6_RenderZone(i, needsFull, r, acc) ==
    LET called == [acc EXCEPT !.requests = Append(@, ZoneRequest(i)),
                              !.ops = @ \o TagZone(r.ops, i)]
    IN IF r.ok
       THEN LET counted == [called EXCEPT !.drawn = @ + 1]
            IN IF ~needsFull THEN V6_doPartialRefresh(counted, i) ELSE counted
       ELSE [called EXCEPT !.failed = @ \cup {i}]

\* for (int i = 0; i < ZONE_COUNT; i++) if (zoneChanged[i] || needsFull) ...
RECURSIVE V6_RenderLoop(_, _, _, _)
V6_RenderLoop(i, needsFull, rs, acc) ==
    IF i > V6_ZONE_COUNT THEN acc
    ELSE IF zoneChanged[i] \/ needsFull
    THEN V6_RenderLoop(i + 1, needsFull, rs, V6_RenderZone(i, needsFull, rs[i], acc))
    ELSE V6_RenderLoop(i + 1, needsFull, rs, acc)

\* Variant of the end of STATE_RENDER that keeps partialRefreshCount.
V6_RenderDone_KeepsCount(needsFull, looped) ==
    IF needsFull /\ looped.drawn > 0
    THEN [V6_doFullRefresh(looped) EXCEPT !.sinceFull = 0, !.initialDrawDone = TRUE]
    ELSE looped

\* if (needsFull && drawn > 0) { doFullRefresh(); lastFullRefresh = now;
\*                               partialRefreshCount = 0; initialDrawDone = true; }
V6_RenderDone(needsFull, looped) ==
    IF needsFull /\ looped.drawn > 0
    THEN [V6_doFullRefresh(looped) EXCEPT !.sinceFull = 0, !.count = 0,
                                          !.initialDrawDone = TRUE]
    ELSE looped

\* The results fetchAndDrawZone can return in a cycle, over all server answers.
V6_ZoneResults(flash) == {V6_fetchAndDrawZone(flash, r) : r \in V6_ZoneResponses}

\* The largest value of sincePairingStart: past the pairing timeout.
V6_PairingStartCap == V6_PAIRING_TIMEOUT_MS + 1

\* The state setup() leaves; buffer is what malloc(ZONE_BUFFER_SIZE) returned.  When
\* it is null setup() assigns STATE_ERROR, and assigns STATE_WIFI_CONNECT again
\* before it returns.
V6Setup(buffer) ==
    /\ firmware = "v6"
    /\ currentState = "STATE_WIFI_CONNECT"
    /\ serverUrl \in ServerUrls
    /\ wifiConnected = FALSE
    /\ initialDrawDone = FALSE
    /\ setupRequired = FALSE
    /\ sinceRefresh = V6_SetupMillis
    /\ sinceFullRefresh = V6_BootScreenDelay
    /\ partialRefreshCount = 0
    /\ partialCount = 0
    /\ consecutiveErrors = 0
    /\ sinceError = V6_SetupMillis
    /\ zoneChanged = [i \in 1..V6_ZONE_COUNT |-> FALSE]
    /\ pairingMode = FALSE
    /\ sincePairingStart = V6_PairingStartCap
    /\ pairingScreenShown = FALSE
    /\ sincePoll = V6_PAIRING_POLL_INTERVAL_MS
    /\ waitingScreenShown = FALSE
    /\ wifiSSID = "" /\ wifiPassword = ""
    /\ bleCredentialsReceived = FALSE /\ bleInitialized = FALSE
    /\ NotTiered
    /\ NoBleTask
    /\ ops = <<>>
    /\ requests = <<>>
    /\ failed = {}
    /\ reportedChanged = {}
    /\ cycle = NoCycle
    /\ zoneBuffer = buffer
    /\ response = NoResponse
    /\ result = NoResult
    /\ backoffWait = 0

\* setup() when the zone buffer was allocated.
V6Init == V6Setup("allocated")

\* The time that passes between two passes of loop(): three refresh intervals (a
\* minute) or one full-refresh interval.
TimeSteps == {3 * V6_REFRESH_INTERVAL_MS, V6_FULL_REFRESH_INTERVAL_MS}

\* Time passes between two passes of loop().
V6_Tick ==
    /\ firmware = "v6"
    /\ \E e \in TimeSteps :
         /\ sinceRefresh' = Min(sinceRefresh + e, V6_REFRESH_INTERVAL_MS)
         /\ sinceFullRefresh' = Min(sinceFullRefresh + e, V6_FULL_REFRESH_INTERVAL_MS)
         /\ sinceError' = Min(sinceError + e, V6_getBackoffDelay(V6_MAX_BACKOFF_ERRORS))
         /\ backoffWait' = IF sinceError' >= backoffWait THEN 0 ELSE backoffWait
         /\ sincePairingStart' = IF pairingMode
                                 THEN Min(sincePairingStart + e, V6_PairingStartCap)
                                 ELSE V6_PairingStartCap
         /\ sincePoll' = IF pairingScreenShown
                         THEN Min(sincePoll + e, V6_PAIRING_POLL_INTERVAL_MS)
                         ELSE V6_PAIRING_POLL_INTERVAL_MS
    /\ ops' = <<>> /\ requests' = <<>> /\ NoCycleHistory
    /\ UNCHANGED bleVars
    /\ UNCHANGED <<firmware, currentState, serverUrl, wifiConnected, initialDrawDone,
                   setupRequired, partialRefreshCount, partialCount, consecutiveErrors,
                   zoneChanged, pairingMode, pairingScreenShown, waitingScreenShown,
                   reportedChanged>>
    /\ response' = NoResponse
    /\ UNCHANGED <<bleTaskVars, tieredVars, zoneBuffer, result>>

\* case STATE_WIFI_CONNECT.  connected: wm.autoConnect() returned true; saved: the
\* value the portal's save callback received ("" when it did not run or was empty).
V6_StateWifiConnect ==
    /\ firmware = "v6" /\ currentState = "STATE_WIFI_CONNECT"
    /\ \E connected \in BOOLEAN, saved \in ServerUrls \cup {""} :
         LET url == IF saved # "" THEN saved ELSE serverUrl
         IN /\ serverUrl' = url
            /\ IF connected
               THEN /\ wifiConnected' = TRUE
                    /\ currentState' = IF HasHttp(url) THEN "STATE_WAITING_SETUP"
                                       ELSE "STATE_WIFI_CONNECT"
                    /\ consecutiveErrors' = 0
                    /\ initialDrawDone' = FALSE
               ELSE /\ wifiConnected' = FALSE
                    /\ currentState' = "STATE_ERROR"
                    /\ UNCHANGED <<consecutiveErrors, initialDrawDone>>
    /\ ops' = <<>> /\ requests' = <<>> /\ NoCycleHistory
    /\ UNCHANGED bleVars
    /\ UNCHANGED <<firmware, setupRequired, sinceRefresh, sinceFullRefresh,
                   partialRefreshCount, partialCount, sinceError, zoneChanged,
                   pairingMode, sincePairingStart, pairingScreenShown, sincePoll,
                   waitingScreenShown, reportedChanged>>
    /\ response' = NoResponse
    /\ UNCHANGED <<bleTaskVars, tieredVars, zoneBuffer, result, backoffWait>>

\* case STATE_WAITING_SETUP.  static setupStartTime stays 0 (it is never assigned),
\* so millis() - setupStartTime is the time since boot, at least V6_SetupMillis.
V6_StateWaitingSetup ==
    /\ firmware = "v6" /\ currentState = "STATE_WAITING_SETUP"
    /\ waitingScreenShown' = TRUE
    /\ currentState' = IF V6_SetupMillis >= V6_SETUP_WAIT_MS THEN "STATE_FETCH_ZONES"
                       ELSE "STATE_WAITING_SETUP"
    /\ ops' = <<>> /\ requests' = <<>> /\ NoCycleHistory
    /\ UNCHANGED bleVars
    /\ UNCHANGED <<firmware, serverUrl, wifiConnected, initialDrawDone, setupRequired,
                   sinceRefresh, sinceFullRefresh, partialRefreshCount, partialCount,
                   consecutiveErrors, sinceError, zoneChanged, pairingMode,
                   sincePairingStart, pairingScreenShown, sincePoll, reportedChanged>>
    /\ response' = NoResponse
    /\ UNCHANGED <<bleTaskVars, tieredVars, zoneBuffer, result, backoffWait>>

\* case STATE_PAIRING.  paired: pollPairingStatus() got HTTP 200 with status "paired"
\* and a webhookUrl; webhook: that URL.  registerForPairing() always leaves a
\* non-empty pairingCode, so pollPairingStatus() never returns early.
V6_StatePairing ==
    /\ firmware = "v6" /\ currentState = "STATE_PAIRING"
    /\ \E paired \in BOOLEAN, webhook \in {DEFAULT_SERVER_URL} :
         LET first == ~pairingScreenShown
             pollAge == IF first THEN 0 ELSE sincePoll
             shownOps == IF first THEN ScreenOps ELSE <<>>
             shownReq == IF first THEN << <<"pair_register", 0>> >> ELSE <<>>
             timedOut == sincePairingStart > V6_PAIRING_TIMEOUT_MS
             pollDue == pollAge >= V6_PAIRING_POLL_INTERVAL_MS
         IN /\ sinceFullRefresh' = IF first THEN 0 ELSE sinceFullRefresh
            /\ IF timedOut
               THEN /\ pairingScreenShown' = FALSE
                    /\ pairingMode' = FALSE
                    /\ ops' = shownOps \o ScreenOps
                    /\ requests' = shownReq
                    /\ currentState' = "STATE_ERROR"
                    /\ serverUrl' = serverUrl
               ELSE IF pollDue
               THEN /\ requests' = Append(shownReq, <<"pair_poll", 0>>)
                    /\ IF paired
                       THEN /\ pairingScreenShown' = FALSE
                            /\ pairingMode' = FALSE
                            /\ serverUrl' = webhook
                            /\ ops' = shownOps \o ScreenOps
                            /\ currentState' = "STATE_FETCH_ZONES"
                       ELSE /\ pairingScreenShown' = TRUE
                            /\ ops' = shownOps
                            /\ UNCHANGED <<pairingMode, serverUrl, currentState>>
               ELSE /\ pairingScreenShown' = TRUE
                    /\ ops' = shownOps
                    /\ requests' = shownReq
                    /\ UNCHANGED <<pairingMode, serverUrl, currentState>>
            /\ sincePoll' = IF ~pairingScreenShown' THEN V6_PAIRING_POLL_INTERVAL_MS
                            ELSE IF ~timedOut /\ pollDue THEN 0 ELSE pollAge
            /\ sincePairingStart' = IF pairingMode' THEN sincePairingStart
                                    ELSE V6_PairingStartCap
    /\ NoCycleHistory
    /\ UNCHANGED bleVars
    /\ UNCHANGED <<firmware, wifiConnected, initialDrawDone, setupRequired, sinceRefresh,
                   partialRefreshCount, partialCount, consecutiveErrors, sinceError,
                   zoneChanged, waitingScreenShown, reportedChanged>>
    /\ response' = NoResponse
    /\ UNCHANGED <<bleTaskVars, tieredVars, zoneBuffer, result, backoffWait>>

\* Variant of the backoff test that never holds a cycle back.
V6_BackoffActive_Never == FALSE

\* if (consecutiveErrors > 0) { unsigned long backoff = getBackoffDelay();
\*                              if (now - lastErrorTime < backoff) { ...; break; } }
V6_BackoffActive ==
    /\ consecutiveErrors > 0
    /\ sinceError < V6_getBackoffDelay(consecutiveErrors)

\* Variant of the outcome that counts a setup-required answer as a failure.
V6_FetchOutcome_SetupIsFailure(ok, setupReq) ==
    IF ok
    THEN [consecutiveErrors |-> 0, sinceError |-> sinceError, sinceRefresh |-> 0,
          currentState |-> "STATE_RENDER"]
    ELSE [consecutiveErrors |-> consecutiveErrors + 1, sinceError |-> 0,
          sinceRefresh |-> sinceRefresh,
          currentState |-> IF setupReq THEN "STATE_SETUP_REQUIRED" ELSE "STATE_IDLE"]

\* Variant of the outcome in which a successful check keeps consecutiveErrors.
V6_FetchOutcome_KeepsErrors(ok, setupReq) ==
    IF ok
    THEN [consecutiveErrors |-> consecutiveErrors, sinceError |-> sinceError,
          sinceRefresh |-> 0, currentState |-> "STATE_RENDER"]
    ELSE IF setupReq
    THEN [consecutiveErrors |-> consecutiveErrors, sinceError |-> sinceError,
          sinceRefresh |-> sinceRefresh, currentState |-> "STATE_SETUP_REQUIRED"]
    ELSE [consecutiveErrors |-> consecutiveErrors + 1, sinceError |-> 0,
          sinceRefresh |-> sinceRefresh, currentState |-> "STATE_IDLE"]

\* if (fetchZoneList(needsFull)) { consecutiveErrors = 0; lastRefresh = now; RENDER }
\* else if (setupRequired) { SETUP_REQUIRED }
\* else { consecutiveErrors++; lastErrorTime = now; IDLE }
\* ok: what fetchZoneList returned; setupReq: the global setupRequired after the call.
V6_FetchOutcome(ok, setupReq) ==
    IF ok
    THEN [consecutiveErrors |-> 0, sinceError |-> sinceError, sinceRefresh |-> 0,
          currentState |-> "STATE_RENDER"]
    ELSE IF setupReq
    THEN [consecutiveErrors |-> consecutiveErrors, sinceError |-> sinceError,
          sinceRefresh |-> sinceRefresh, currentState |-> "STATE_SETUP_REQUIRED"]
    ELSE [consecutiveErrors |-> consecutiveErrors + 1, sinceError |-> 0,
          sinceRefresh |-> sinceRefresh, currentState |-> "STATE_IDLE"]

\* case STATE_FETCH_ZONES.  wifiUp: WiFi.status() == WL_CONNECTED; resp: the answer
\* of the metadata endpoint.
V6_StateFetchZones ==
    /\ firmware = "v6" /\ currentState = "STATE_FETCH_ZONES"
    /\ \E wifiUp \in BOOLEAN, resp \in V6_MetaResponses :
         LET needsRefresh == ~initialDrawDone \/ sinceRefresh >= V6_REFRESH_INTERVAL_MS
             r == V6_fetchZoneList(V6_needsFull, resp)
             after == V6_FetchOutcome(r.ok, r.setupRequired)
         IN IF ~wifiUp
            THEN /\ wifiConnected' = FALSE
                 /\ currentState' = "STATE_WIFI_CONNECT"
                 /\ requests' = <<>>
                 /\ response' = NoResponse
                 /\ backoffWait' = backoffWait
                 /\ UNCHANGED <<consecutiveErrors, sinceError, sinceRefresh,
                                zoneChanged, setupRequired, reportedChanged>>
            ELSE IF V6_BackoffActive
            THEN /\ requests' = <<>>
                 /\ response' = NoResponse
                 /\ backoffWait' = backoffWait
                 /\ UNCHANGED <<wifiConnected, currentState, consecutiveErrors,
                                sinceError, sinceRefresh, zoneChanged, setupRequired,
                                reportedChanged>>
            ELSE IF ~needsRefresh
            THEN /\ currentState' = "STATE_IDLE"
                 /\ requests' = <<>>
                 /\ response' = NoResponse
                 /\ backoffWait' = backoffWait
                 /\ UNCHANGED <<wifiConnected, consecutiveErrors, sinceError,
                                sinceRefresh, zoneChanged, setupRequired, reportedChanged>>
            ELSE /\ zoneChanged' = r.zoneChanged
                 /\ setupRequired' = r.setupRequired
                 /\ requests' = r.requests
                 /\ response' = [kind |-> "metadata", answer |-> resp]
                 /\ reportedChanged' = IF resp.begin /\ resp.httpCode = 200
                                       THEN resp.changed ELSE {}
                 /\ wifiConnected' = wifiConnected
                 /\ after.consecutiveErrors <= MaxErrors
                 /\ consecutiveErrors' = after.consecutiveErrors
                 /\ sinceError' = after.sinceError
                 /\ sinceRefresh' = after.sinceRefresh
                 /\ currentState' = after.currentState
                 /\ backoffWait' = IF r.ok THEN 0
                                  ELSE IF after.consecutiveErrors > consecutiveErrors
                                  THEN V6_getBackoffDelay(after.consecutiveErrors)
                                  ELSE backoffWait
    /\ ops' = <<>> /\ NoCycleHistory
    /\ UNCHANGED bleVars
    /\ UNCHANGED <<firmware, serverUrl, initialDrawDone, sinceFullRefresh,
                   partialRefreshCount, partialCount, pairingMode, sincePairingStart,
                   pairingScreenShown, sincePoll, waitingScreenShown>>
    /\ UNCHANGED <<bleTaskVars, tieredVars, zoneBuffer, result>>

\* case STATE_RENDER.  rs[i]: what fetchAndDrawZone returns for ZONES[i].
V6_StateRender ==
    /\ firmware = "v6" /\ currentState = "STATE_RENDER"
    /\ LET needsFull == V6_needsFull
       IN \E rs \in [1..V6_ZONE_COUNT -> V6_ZoneResults(~needsFull)] :
            LET start == [drawn |-> 0, count |-> partialRefreshCount, ops |-> <<>>,
                          requests |-> <<>>, failed |-> {},
                          sinceFull |-> sinceFullRefresh,
                          initialDrawDone |-> initialDrawDone]
                done == V6_RenderDone(needsFull, V6_RenderLoop(1, needsFull, rs, start))
            IN /\ ops' = done.ops
               /\ requests' = done.requests
               /\ failed' = done.failed
               /\ sinceFullRefresh' = done.sinceFull
               /\ partialRefreshCount' = done.count
               /\ initialDrawDone' = done.initialDrawDone
               /\ cycle' = [active |-> TRUE, needsFull |-> needsFull,
                            drawn |-> done.drawn, startCount |-> partialRefreshCount,
                            firstDraw |-> ~initialDrawDone]
    /\ currentState' = "STATE_IDLE"
    /\ UNCHANGED bleVars
    /\ UNCHANGED <<firmware, serverUrl, wifiConnected, setupRequired, sinceRefresh,
                   partialCount, consecutiveErrors, sinceError, zoneChanged,
                   pairingMode, sincePairingStart, pairingScreenShown, sincePoll,
                   waitingScreenShown, reportedChanged>>
    /\ response' = NoResponse
    /\ UNCHANGED <<bleTaskVars, tieredVars, zoneBuffer, result, backoffWait>>

\* case STATE_IDLE
V6_StateIdle ==
    /\ firmware = "v6" /\ currentState = "STATE_IDLE"
    /\ currentState' = IF sinceRefresh >= V6_REFRESH_INTERVAL_MS \/ ~initialDrawDone
                       THEN "STATE_FETCH_ZONES" ELSE "STATE_IDLE"
    /\ ops' = <<>> /\ requests' = <<>> /\ NoCycleHistory
    /\ UNCHANGED bleVars
    /\ UNCHANGED <<firmware, serverUrl, wifiConnected, initialDrawDone, setupRequired,
                   sinceRefresh, sinceFullRefresh, partialRefreshCount, partialCount,
                   consecutiveErrors, sinceError, zoneChanged, pairingMode,
                   sincePairingStart, pairingScreenShown, sincePoll,
                   waitingScreenShown, reportedChanged>>
    /\ response' = NoResponse
    /\ UNCHANGED <<bleTaskVars, tieredVars, zoneBuffer, result, backoffWait>>

\* case STATE_SETUP_REQUIRED
V6_StateSetupRequired ==
    /\ firmware = "v6" /\ currentState = "STATE_SETUP_REQUIRED"
    /\ pairingMode' = TRUE
    /\ sincePairingStart' = 0
    /\ currentState' = "STATE_PAIRING"
    /\ ops' = <<>> /\ requests' = <<>> /\ NoCycleHistory
    /\ UNCHANGED bleVars
    /\ UNCHANGED <<firmware, serverUrl, wifiConnected, initialDrawDone, setupRequired,
                   sinceRefresh, sinceFullRefresh, partialRefreshCount, partialCount,
                   consecutiveErrors, sinceError, zoneChanged, pairingScreenShown,
                   sincePoll, waitingScreenShown, reportedChanged>>
    /\ response' = NoResponse
    /\ UNCHANGED <<bleTaskVars, tieredVars, zoneBuffer, result, backoffWait>>

\* case STATE_ERROR: showErrorScreen("Connection failed")
V6_StateError ==
    /\ firmware = "v6" /\ currentState = "STATE_ERROR"
    /\ ops' = ScreenOps
    /\ currentState' = "STATE_WIFI_CONNECT"
    /\ requests' = <<>> /\ NoCycleHistory
    /\ UNCHANGED bleVars
    /\ UNCHANGED <<firmware, serverUrl, wifiConnected, initialDrawDone, setupRequired,
                   sinceRefresh, sinceFullRefresh, partialRefreshCount, partialCount,
                   consecutiveErrors, sinceError, zoneChanged, pairingMode,
                   sincePairingStart, pairingScreenShown, sincePoll,
                   waitingScreenShown, reportedChanged>>
    /\ response' = NoResponse
    /\ UNCHANGED <<bleTaskVars, tieredVars, zoneBuffer, result, backoffWait>>

\* loop() of main-v6.cpp.  setup() leaves STATE_WIFI_CONNECT, and no case assigns
\* STATE_INIT, STATE_BOOT or STATE_WIFI_PORTAL.
V6Next ==
    \/ V6_Tick
    \/ V6_StateWifiConnect
    \/ V6_StateWaitingSetup
    \/ V6_StatePairing
    \/ V6_StateFetchZones
    \/ V6_StateRender
    \/ V6_StateIdle
    \/ V6_StateSetupRequired
    \/ V6_StateError

SpecV6 == V6Init /\ [][V6Next]_vars

(***************************************************************************)
(* main-v6.cpp on a device whose heap cannot hold the zone buffer.         *)
(***************************************************************************)
\* setup() when malloc(ZONE_BUFFER_SIZE) returned null.
V6InitNoBuffer == V6Setup("nullptr")

\* case STATE_RENDER with zoneBuffer == nullptr: fetchAndDrawZone has no null test,
\* and stream->readBytes(zoneBuffer + bytesRead, toRead) stores the first bytes of a
\* zone at address 0.  One outcome of that store is a fault and a restart of the
\* chip: setup() runs again (and malloc fails again).  The other outcome, that the
\* call carries on with whatever the buffer reads as, is in V6_StateRender.
V6_RenderCrash ==
    /\ firmware = "v6" /\ currentState = "STATE_RENDER"
    /\ zoneBuffer = "nullptr"
    /\ \E i \in {j \in 1..V6_ZONE_COUNT : zoneChanged[j] \/ V6_needsFull} :
         requests' = SelectSeq([k \in 1..i |-> ZoneRequest(k)],
                               LAMBDA q : zoneChanged[q[2]] \/ V6_needsFull)
    /\ currentState' = "STATE_WIFI_CONNECT"
    /\ wifiConnected' = FALSE
    /\ initialDrawDone' = FALSE
    /\ setupRequired' = FALSE
    /\ sinceRefresh' = V6_SetupMillis
    /\ sinceFullRefresh' = V6_BootScreenDelay
    /\ partialRefreshCount' = 0
    /\ consecutiveErrors' = 0
    /\ sinceError' = V6_SetupMillis
    /\ zoneChanged' = [i \in 1..V6_ZONE_COUNT |-> FALSE]
    /\ pairingMode' = FALSE
    /\ sincePairingStart' = V6_PairingStartCap
    /\ pairingScreenShown' = FALSE
    /\ sincePoll' = V6_PAIRING_POLL_INTERVAL_MS
    /\ waitingScreenShown' = FALSE
    /\ ops' = <<>>
    /\ NoCycleHistory
    /\ reportedChanged' = {}
    /\ response' = NoResponse
    /\ UNCHANGED bleVars
    /\ backoffWait' = 0
    /\ UNCHANGED <<bleTaskVars, tieredVars, firmware, serverUrl, partialCount, zoneBuffer, result>>

V6NoBufferNext ==
    \/ V6Next
    \/ V6_RenderCrash

SpecV6NoBuffer == V6InitNoBuffer /\ [][V6NoBufferNext]_vars

(***************************************************************************)
(* main-v7.cpp                                                             *)
(***************************************************************************)
V7_PARTIAL_REFRESH_MS == 20000
V7_FULL_REFRESH_MS == 600000
V7_MAX_PARTIAL_BEFORE_FULL == 30
V7_ZONE_COUNT == 4
V7_ZONE_BUFFER_SIZE == 45000
V7_BMP_HEADER_SIZE == 54
V7_BACKOFF_BASE_MS == 5000
V7_BACKOFF_MAX_SHIFT == 4
V7_BACKOFF_CAP_MS == 60000

\* The delays of setup(): delay(300) after Serial.begin(), delay(100) after the
\* display is initialised.
V7_SerialDelay == 300
V7_SettleDelay == 100

\* millis() when setup() returns; lastRefresh, lastFullRefresh and lastErrorTime
\* are still 0.
V7_SetupMillis == V7_SerialDelay + V7_SettleDelay

\* unsigned long getBackoffDelay(): min(5000 << min(consecutiveErrors - 1, 4), 60000),
\* called with consecutiveErrors >= 1.
V7_BackoffShift(n) == Min(n - 1, V7_BACKOFF_MAX_SHIFT)

V7_getBackoffDelay(n) ==
    Min(V7_BACKOFF_BASE_MS * Pow2(V7_BackoffShift(n)), V7_BACKOFF_CAP_MS)

\* The answers of GET api/zone/<id> in main-v7.cpp.  bytesRead: what the read loop
\* got before stream->available() was 0; sig: the buffer starts with 'B','M';
\* bitsPerPixel: the 16-bit field at offset 28.
V7_ZoneAnswer(b, c, len, rd, sg, bpp) ==
    [begin |-> b, httpCode |-> c, contentLen |-> len, bytesRead |-> rd, sig |-> sg,
     bitsPerPixel |-> bpp]

V7_ZoneResponses ==
    { V7_ZoneAnswer(TRUE, 200, 9462, 9462, TRUE, 1),
      V7_ZoneAnswer(FALSE, 0, 0, 0, FALSE, 0),
      V7_ZoneAnswer(TRUE, 404, 0, 0, FALSE, 0),
      V7_ZoneAnswer(TRUE, 200, 0, 0, FALSE, 0),
      V7_ZoneAnswer(TRUE, 200, 45001, 0, FALSE, 0),
      V7_ZoneAnswer(TRUE, 200, 9462, 4096, TRUE, 1),
      V7_ZoneAnswer(TRUE, 200, 30, 30, TRUE, 1),
      V7_ZoneAnswer(TRUE, 200, 9462, 9462, FALSE, 1),
      V7_ZoneAnswer(TRUE, 200, 9462, 9462, TRUE, 24) }

\* The fields of the BMP header in the order fetchAndDrawZone reads them after the
\* signature.
V7_HeaderFields == <<"pixelOffset", "bmpWidth", "bmpHeight", "bitsPerPixel">>

\* Variant of the header parsing that accepts any depth.
V7_ParseBmp_AnyDepth(resp) ==
    IF resp.bytesRead < V7_BMP_HEADER_SIZE THEN [ok |-> FALSE, reads |-> <<>>]
    ELSE IF ~resp.sig THEN [ok |-> FALSE, reads |-> <<"magic">>]
    ELSE [ok |-> TRUE, reads |-> <<"magic">> \o V7_HeaderFields]

\* fetchAndDrawZone from "Parse BMP header" to "Verify 1-bit": whether the payload is
\* accepted, and the header fields read from zoneBuffer, in order.
V7_ParseBmp(resp) ==
    IF resp.bytesRead < V7_BMP_HEADER_SIZE THEN [ok |-> FALSE, reads |-> <<>>]
    ELSE IF ~resp.sig THEN [ok |-> FALSE, reads |-> <<"magic">>]
    ELSE IF resp.bitsPerPixel # 1
    THEN [ok |-> FALSE, reads |-> <<"magic">> \o V7_HeaderFields]
    ELSE [ok |-> TRUE, reads |-> <<"magic">> \o V7_HeaderFields]

\* bool fetchAndDrawZone(const ZoneDef& zone, bool partial), after the test of
\* zoneBuffer: the result, the kinds of the display operations it issues and the
\* header fields it reads.  The parameter partial is never read; the pixels are
\* written with bbep.drawPixel().
V7_fetchAndDrawZone(partial, resp) ==
    IF ~resp.begin THEN [ok |-> FALSE, ops |-> <<>>, reads |-> <<>>]
    ELSE IF resp.httpCode # 200 THEN [ok |-> FALSE, ops |-> <<>>, reads |-> <<>>]
    ELSE IF resp.contentLen <= 0 \/ resp.contentLen > V7_ZONE_BUFFER_SIZE
    THEN [ok |-> FALSE, ops |-> <<>>, reads |-> <<>>]
    ELSE IF resp.bytesRead # resp.contentLen
    THEN [ok |-> FALSE, ops |-> <<>>, reads |-> <<>>]
    ELSE LET header == V7_ParseBmp(resp)
         IN [ok |-> header.ok,
             ops |-> IF header.ok THEN <<"drawPixel">> ELSE <<>>,
             reads |-> header.reads]

\* What the zone loop uses of a call: the result and the display operations.
V7_ZoneResults(partial) ==
    {[ok |-> r.ok, ops |-> r.ops] :
        r \in {V7_fetchAndDrawZone(partial, a) : a \in V7_ZoneResponses}}

\* void doPartialRefresh(): bbep.refresh(REFRESH_PARTIAL, true)
V7_doPartialRefresh(acc, i) == [acc EXCEPT !.ops = Append(@, RefreshPartial(i))]

\* void doFullRefresh(): bbep.refresh(REFRESH_FULL, true)
V7_doFullRefresh(acc) == [acc EXCEPT !.ops = Append(@, RefreshFull)]

\* bool needsFull = !initialDrawDone || (now - lastFullRefresh >= FULL_REFRESH_MS)
\*                  || (partialRefreshCount >= MAX_PARTIAL_BEFORE_FULL)
V7_needsFull ==
    \/ ~initialDrawDone
    \/ sinceFullRefresh >= V7_FULL_REFRESH_MS
    \/ partialRefreshCount >= V7_MAX_PARTIAL_BEFORE_FULL

\* The body of the zone loop of STATE_FETCH_ZONES for ZONES[i].
V7_FetchZone(i, needsFull, r, acc) ==
    LET called == [acc EXCEPT !.requests = Append(@, ZoneRequest(i)),
                              !.ops = @ \o TagZone(r.ops, i)]
    IN IF r.ok
       THEN LET counted == [called EXCEPT !.drawn = @ + 1, !.zoneChanged[i] = FALSE]
            IN IF ~needsFull THEN V7_doPartialRefresh(counted, i) ELSE counted
       ELSE [called EXCEPT !.failed = @ \cup {i}]

\* for (int i = 0; i < ZONE_COUNT; i++) ...
RECURSIVE V7_FetchLoop(_, _, _, _)
V7_FetchLoop(i, needsFull, rs, acc) ==
    IF i > V7_ZONE_COUNT THEN acc
    ELSE V7_FetchLoop(i + 1, needsFull, rs, V7_FetchZone(i, needsFull, rs[i], acc))

\* if (needsFull && drawn > 0) { doFullRefresh(); lastFullRefresh = now;
\*     partialRefreshCount = 0; initialDrawDone = true; }
\* else if (drawn > 0 && !needsFull) { partialRefreshCount++; }
V7_FetchDone(needsFull, looped) ==
    IF needsFull /\ looped.drawn > 0
    THEN [V7_doFullRefresh(looped) EXCEPT !.sinceFull = 0, !.count = 0,
                                          !.initialDrawDone = TRUE]
    ELSE IF looped.drawn > 0 /\ ~needsFull
    THEN [looped EXCEPT !.count = @ + 1]
    ELSE looped

\* Variant of the guard of line 249 that always calls getBackoffDelay().
V7_BackoffCalls_Unguarded == {consecutiveErrors}

\* The values of consecutiveErrors with which a STATE_FETCH_ZONES pass calls
\* getBackoffDelay() (line 250, its only call): none unless consecutiveErrors > 0.
V7_BackoffCalls == IF consecutiveErrors > 0 THEN {consecutiveErrors} ELSE {}

\* Variant of the backoff test that never holds a cycle back.
V7_BackoffActive_Never == FALSE

\* if (consecutiveErrors > 0) { unsigned long backoff = getBackoffDelay();
\*                              if (now - lastErrorTime < backoff) { ...; break; } }
V7_BackoffActive ==
    \E n \in V7_BackoffCalls : sinceError < V7_getBackoffDelay(n)

\* Variant of setup() that keeps the initial value of currentState (line 101).
V7_SetupState_Boot == "STATE_BOOT"

\* setup(), line 187: currentState = STATE_WIFI_CONNECT;
V7_SetupState == "STATE_WIFI_CONNECT"

\* The state setup() leaves.
V7Init ==
    /\ firmware = "v7"
    /\ currentState = V7_SetupState
    /\ serverUrl = DEFAULT_SERVER_URL
    /\ wifiConnected = FALSE
    /\ initialDrawDone = FALSE
    /\ sinceRefresh = V7_SetupMillis
    /\ sinceFullRefresh = V7_SetupMillis
    /\ partialRefreshCount = 0
    /\ partialCount = 0
    /\ consecutiveErrors = 0
    /\ sinceError = V7_SetupMillis
    /\ zoneChanged = [i \in 1..V7_ZONE_COUNT |-> TRUE]
    /\ setupRequired = FALSE
    /\ pairingMode = FALSE
    /\ sincePairingStart = 0
    /\ pairingScreenShown = FALSE
    /\ sincePoll = 0
    /\ waitingScreenShown = FALSE
    /\ wifiSSID = "" /\ wifiPassword = ""
    /\ bleCredentialsReceived = FALSE /\ bleInitialized = FALSE
    /\ NotTiered
    /\ NoBleTask
    /\ ops = <<>>
    /\ requests = <<>>
    /\ failed = {}
    /\ reportedChanged = {}
    /\ cycle = NoCycle
    /\ zoneBuffer = "allocated"
    /\ response = NoResponse
    /\ result = NoResult
    /\ backoffWait = 0

\* Time passes between two passes of loop().
V7_Tick ==
    /\ firmware = "v7"
    /\ \E e \in TimeSteps :
         /\ sinceRefresh' = Min(sinceRefresh + e, V7_PARTIAL_REFRESH_MS)
         /\ sinceFullRefresh' = Min(sinceFullRefresh + e, V7_FULL_REFRESH_MS)
         /\ sinceError' = Min(sinceError + e, V7_BACKOFF_CAP_MS)
         /\ backoffWait' = IF sinceError' >= backoffWait THEN 0 ELSE backoffWait
    /\ ops' = <<>> /\ requests' = <<>> /\ NoCycleHistory
    /\ UNCHANGED <<v6Vars, bleVars>>
    /\ UNCHANGED <<firmware, currentState, serverUrl, wifiConnected, initialDrawDone,
                   partialRefreshCount, partialCount, consecutiveErrors, zoneChanged,
                   reportedChanged>>
    /\ response' = NoResponse
    /\ UNCHANGED <<bleTaskVars, tieredVars, zoneBuffer, result>>

\* case STATE_WIFI_CONNECT.  connected: wifiManager.autoConnect() returned true.
V7_StateWifiConnect ==
    /\ firmware = "v7" /\ currentState = "STATE_WIFI_CONNECT"
    /\ \E connected \in BOOLEAN :
         IF connected
         THEN /\ wifiConnected' = TRUE
              /\ currentState' = "STATE_FETCH_ZONES"
         ELSE /\ currentState' = "STATE_WIFI_PORTAL"
              /\ UNCHANGED wifiConnected
    /\ ops' = <<>> /\ requests' = <<>> /\ NoCycleHistory
    /\ UNCHANGED <<v6Vars, bleVars>>
    /\ UNCHANGED <<firmware, serverUrl, initialDrawDone, sinceRefresh, sinceFullRefresh,
                   partialRefreshCount, partialCount, consecutiveErrors, sinceError,
                   zoneChanged, reportedChanged>>
    /\ response' = NoResponse
    /\ UNCHANGED <<bleTaskVars, tieredVars, zoneBuffer, result, backoffWait>>

\* case STATE_WIFI_PORTAL.  wifiUp: WiFi.status() == WL_CONNECTED.
V7_StateWifiPortal ==
    /\ firmware = "v7" /\ currentState = "STATE_WIFI_PORTAL"
    /\ \E wifiUp \in BOOLEAN :
         IF wifiUp
         THEN /\ wifiConnected' = TRUE
              /\ currentState' = "STATE_FETCH_ZONES"
         ELSE UNCHANGED <<wifiConnected, currentState>>
    /\ ops' = <<>> /\ requests' = <<>> /\ NoCycleHistory
    /\ UNCHANGED <<v6Vars, bleVars>>
    /\ UNCHANGED <<firmware, serverUrl, initialDrawDone, sinceRefresh, sinceFullRefresh,
                   partialRefreshCount, partialCount, consecutiveErrors, sinceError,
                   zoneChanged, reportedChanged>>
    /\ response' = NoResponse
    /\ UNCHANGED <<bleTaskVars, tieredVars, zoneBuffer, result, backoffWait>>

\* case STATE_FETCH_ZONES: the checks, then the refresh cycle.  wifiUp:
\* WiFi.status() == WL_CONNECTED; rs[i]: what fetchAndDrawZone returns for ZONES[i].
V7_StateFetchZones ==
    /\ firmware = "v7" /\ currentState = "STATE_FETCH_ZONES"
    /\ \E wifiUp \in BOOLEAN :
         LET needsRefresh == ~initialDrawDone \/ sinceRefresh >= V7_PARTIAL_REFRESH_MS
             needsFull == V7_needsFull
             quiet == /\ ops' = <<>> /\ requests' = <<>> /\ NoCycleHistory
                      /\ UNCHANGED <<initialDrawDone, sinceRefresh, sinceFullRefresh,
                                     partialRefreshCount, consecutiveErrors, sinceError,
                                     zoneChanged, backoffWait>>
         IN IF ~wifiUp
            THEN /\ wifiConnected' = FALSE
                 /\ currentState' = "STATE_WIFI_CONNECT"
                 /\ quiet
            ELSE IF V7_BackoffActive
            THEN /\ UNCHANGED <<wifiConnected, currentState>>
                 /\ quiet
            ELSE IF ~needsRefresh
            THEN /\ currentState' = "STATE_IDLE"
                 /\ UNCHANGED wifiConnected
                 /\ quiet
            ELSE \E rs \in [1..V7_ZONE_COUNT -> V7_ZoneResults(~needsFull)] :
                   LET start == [drawn |-> 0, count |-> partialRefreshCount,
                                 ops |-> <<>>, requests |-> <<>>, failed |-> {},
                                 zoneChanged |-> zoneChanged,
                                 sinceFull |-> sinceFullRefresh,
                                 initialDrawDone |-> initialDrawDone]
                       done == V7_FetchDone(needsFull,
                                            V7_FetchLoop(1, needsFull, rs, start))
                   IN /\ ops' = done.ops
                      /\ requests' = done.requests
                      /\ failed' = done.failed
                      /\ zoneChanged' = done.zoneChanged
                      /\ sinceFullRefresh' = done.sinceFull
                      /\ partialRefreshCount' = done.count
                      /\ initialDrawDone' = done.initialDrawDone
                      /\ cycle' = [active |-> TRUE, needsFull |-> needsFull,
                                   drawn |-> done.drawn,
                                   startCount |-> partialRefreshCount,
                                   firstDraw |-> ~initialDrawDone]
                      /\ IF done.drawn > 0
                         THEN /\ consecutiveErrors' = 0
                              /\ sinceRefresh' = 0
                              /\ backoffWait' = 0
                              /\ UNCHANGED sinceError
                         ELSE /\ consecutiveErrors < MaxErrors
                              /\ consecutiveErrors' = consecutiveErrors + 1
                              /\ sinceError' = 0
                              /\ backoffWait' = V7_getBackoffDelay(consecutiveErrors + 1)
                              /\ UNCHANGED sinceRefresh
                      /\ currentState' = "STATE_IDLE"
                      /\ UNCHANGED wifiConnected
    /\ UNCHANGED <<v6Vars, bleVars>>
    /\ UNCHANGED <<firmware, serverUrl, partialCount, reportedChanged>>
    /\ response' = NoResponse
    /\ UNCHANGED <<bleTaskVars, tieredVars, zoneBuffer, result>>

\* case STATE_IDLE
V7_StateIdle ==
    /\ firmware = "v7" /\ currentState = "STATE_IDLE"
    /\ currentState' = IF sinceRefresh >= V7_PARTIAL_REFRESH_MS \/ ~initialDrawDone
                       THEN "STATE_FETCH_ZONES" ELSE "STATE_IDLE"
    /\ ops' = <<>> /\ requests' = <<>> /\ NoCycleHistory
    /\ UNCHANGED <<v6Vars, bleVars>>
    /\ UNCHANGED <<firmware, serverUrl, wifiConnected, initialDrawDone, sinceRefresh,
                   sinceFullRefresh, partialRefreshCount, partialCount,
                   consecutiveErrors, sinceError, zoneChanged, reportedChanged>>
    /\ response' = NoResponse
    /\ UNCHANGED <<bleTaskVars, tieredVars, zoneBuffer, result, backoffWait>>

\* loop() of main-v7.cpp.  setup() leaves STATE_WIFI_CONNECT, and no case assigns
\* STATE_BOOT, STATE_RENDER or STATE_ERROR.
V7Next ==
    \/ V7_Tick
    \/ V7_StateWifiConnect
    \/ V7_StateWifiPortal
    \/ V7_StateFetchZones
    \/ V7_StateIdle

SpecV7 == V7Init /\ [][V7Next]_vars

(***************************************************************************)
(* zones-v12.cpp                                                           *)
(***************************************************************************)
V12_REFRESH_INTERVAL == 20000
V12_FULL_REFRESH_INTERVAL == 300000
V12_MAX_PARTIAL == 30
V12_ZONE_COUNT == 6
V12_ZONE_BUFFER_SIZE == 16384

\* The delays of setup(): delay(500) after Serial.begin(), and delay(3000) after
\* showWelcomeScreen(), which stamps lastFullRefresh and runs only when no server
\* URL is stored.
V12_SerialDelay == 500
V12_WelcomeDelay == 3000

\* The answers of GET /api/zones?batch=0.  changedField: the payload contains
\* "changed":, array: a '[' and a ']' follow it; changed: the indices in ZONES[] of
\* the ids listed in that array.
V12_MetaAnswer(b, c, f, a, ch) ==
    [begin |-> b, httpCode |-> c, changedField |-> f, array |-> a, changed |-> ch]

V12_MetaResponses ==
    { V12_MetaAnswer(FALSE, 0, FALSE, FALSE, {}),
      V12_MetaAnswer(TRUE, 503, FALSE, FALSE, {}),
      V12_MetaAnswer(TRUE, 200, FALSE, FALSE, {}),
      V12_MetaAnswer(TRUE, 200, TRUE, FALSE, {}),
      V12_MetaAnswer(TRUE, 200, TRUE, TRUE, {}),
      V12_MetaAnswer(TRUE, 200, TRUE, TRUE, {1, 3}) }

\* bool fetchChangedZoneList(bool forceAll, bool* changedFlags): the result and
\* the flags it sets.
V12_fetchChangedZoneList(forceAll, resp) ==
    LET none == [i \in 1..V12_ZONE_COUNT |-> FALSE]
    IN IF ~resp.begin THEN [ok |-> FALSE, changedFlags |-> none, requests |-> <<>>]
       ELSE IF resp.httpCode # 200
       THEN [ok |-> FALSE, changedFlags |-> none, requests |-> <<MetaRequest>>]
       ELSE IF ~resp.changedField \/ ~resp.array
       THEN [ok |-> FALSE, changedFlags |-> none, requests |-> <<MetaRequest>>]
       ELSE [ok |-> TRUE, changedFlags |-> [i \in 1..V12_ZONE_COUNT |-> i \in resp.changed],
             requests |-> <<MetaRequest>>]

V12_ZoneResponses ==
    { ZoneAnswer(TRUE, 200, 9462, 9462, TRUE, TRUE),
      ZoneAnswer(FALSE, 0, 0, 0, FALSE, FALSE),
      ZoneAnswer(TRUE, 404, 0, 0, FALSE, FALSE),
      ZoneAnswer(TRUE, 200, 0, 0, FALSE, FALSE),
      ZoneAnswer(TRUE, 200, 16385, 0, FALSE, FALSE),
      ZoneAnswer(TRUE, 200, 9462, 4096, TRUE, FALSE),
      ZoneAnswer(TRUE, 200, 9462, 9462, FALSE, FALSE) }

\* bool fetchAndDrawZone(const ZoneDef& zone, bool doFlash): the result and the
\* kinds of the display operations it issues, in order.
V12_fetchAndDrawZone(doFlash, resp) ==
    IF ~resp.begin THEN [ok |-> FALSE, ops |-> <<>>]
    ELSE IF resp.httpCode # 200 THEN [ok |-> FALSE, ops |-> <<>>]
    ELSE IF resp.contentLen <= 0 \/ resp.contentLen > V12_ZONE_BUFFER_SIZE
    THEN [ok |-> FALSE, ops |-> <<>>]
    ELSE IF resp.bytesRead # resp.contentLen \/ ~resp.sig THEN [ok |-> FALSE, ops |-> <<>>]
    ELSE LET flashOps == IF doFlash THEN <<"fillRect_BLACK", "refresh_PARTIAL">>
                         ELSE <<>>
         IN [ok |-> resp.loadBMP, ops |-> flashOps \o <<"loadBMP">>]

V12_ZoneResults(doFlash) == {V12_fetchAndDrawZone(doFlash, r) : r \in V12_ZoneResponses}

\* void doFullRefresh(): bbep.refresh(REFRESH_FULL, true)
V12_doFullRefresh(acc) == [acc EXCEPT !.ops = Append(@, RefreshFull)]

\* bool needsFull = !initialDrawDone || (now - lastFullRefresh >= FULL_REFRESH_INTERVAL)
\*                  || (partialCount >= 30)
V12_needsFull(drawDone) ==
    \/ ~drawDone
    \/ sinceFullRefresh >= V12_FULL_REFRESH_INTERVAL
    \/ partialCount >= V12_MAX_PARTIAL

\* The zones the loop calls fetchAndDrawZone for.
V12_Attempted(needsFull, changedFlags) ==
    {i \in 1..V12_ZONE_COUNT : changedFlags[i] \/ needsFull}

\* The body of the zone loop of loop() for ZONES[i].
V12_LoopZone(i, needsFull, r, acc) ==
    LET called == [acc EXCEPT !.requests = Append(@, ZoneRequest(i)),
                              !.ops = @ \o TagZone(r.ops, i)]
    IN IF r.ok
       THEN LET counted == [called EXCEPT !.drawn = @ + 1]
            IN IF ~needsFull
               THEN [counted EXCEPT !.ops = Append(@, RefreshPartial(i)),
                                    !.count = @ + 1]
               ELSE counted
       ELSE [called EXCEPT !.failed = @ \cup {i}]

\* for (int i = 0; i < ZONE_COUNT; i++) if (changedFlags[i] || needsFull) ...
RECURSIVE V12_ZoneLoop(_, _, _, _, _)
V12_ZoneLoop(i, needsFull, changedFlags, rs, acc) ==
    IF i > V12_ZONE_COUNT THEN acc
    ELSE IF changedFlags[i] \/ needsFull
    THEN V12_ZoneLoop(i + 1, needsFull, changedFlags, rs,
                      V12_LoopZone(i, needsFull, rs[i], acc))
    ELSE V12_ZoneLoop(i + 1, needsFull, changedFlags, rs, acc)

\* if (needsFull && drawn > 0) { doFullRefresh(); lastFullRefresh = now;
\*                               partialCount = 0; initialDrawDone = true; }
V12_LoopDone(needsFull, looped) ==
    IF needsFull /\ looped.drawn > 0
    THEN [V12_doFullRefresh(looped) EXCEPT !.sinceFull = 0, !.count = 0,
                                           !.initialDrawDone = TRUE]
    ELSE looped

\* The state setup() leaves: serverUrl is what loadSettings() read.
V12Init ==
    /\ firmware = "v12"
    /\ currentState = "loop"
    /\ serverUrl \in {"", DEFAULT_SERVER_URL}
    /\ wifiConnected = FALSE
    /\ initialDrawDone = FALSE
    /\ sinceRefresh = IF serverUrl = "" THEN V12_SerialDelay + V12_WelcomeDelay
                      ELSE V12_SerialDelay
    /\ sinceFullRefresh = IF serverUrl = "" THEN V12_WelcomeDelay ELSE V12_SerialDelay
    /\ partialRefreshCount = 0
    /\ partialCount = 0
    /\ consecutiveErrors = 0
    /\ sinceError = 0
    /\ zoneChanged = [i \in 1..V12_ZONE_COUNT |-> FALSE]
    /\ setupRequired = FALSE
    /\ pairingMode = FALSE
    /\ sincePairingStart = 0
    /\ pairingScreenShown = FALSE
    /\ sincePoll = 0
    /\ waitingScreenShown = FALSE
    /\ wifiSSID = "" /\ wifiPassword = ""
    /\ bleCredentialsReceived = FALSE /\ bleInitialized = FALSE
    /\ NotTiered
    /\ NoBleTask
    /\ ops = <<>>
    /\ requests = <<>>
    /\ failed = {}
    /\ reportedChanged = {}
    /\ cycle = NoCycle
    /\ zoneBuffer = "allocated"
    /\ response = NoResponse
    /\ result = NoResult
    /\ backoffWait = 0

\* Time passes between two passes of loop().
V12_Tick ==
    /\ firmware = "v12"
    /\ \E e \in TimeSteps :
         /\ sinceRefresh' = Min(sinceRefresh + e, V12_REFRESH_INTERVAL)
         /\ sinceFullRefresh' = Min(sinceFullRefresh + e, V12_FULL_REFRESH_INTERVAL)
    /\ ops' = <<>> /\ requests' = <<>> /\ NoCycleHistory
    /\ UNCHANGED <<v6Vars, bleVars>>
    /\ UNCHANGED <<firmware, currentState, serverUrl, wifiConnected, initialDrawDone,
                   partialRefreshCount, partialCount, consecutiveErrors, sinceError,
                   zoneChanged, reportedChanged>>
    /\ response' = NoResponse
    /\ UNCHANGED <<bleTaskVars, tieredVars, zoneBuffer, result, backoffWait>>

\* connectWiFi() runs only while wifiConnected is false: only then are its results
\* inputs of the pass.
V12_IfConnecting(results) ==
    IF ~wifiConnected THEN results ELSE {CHOOSE r \in results : TRUE}

\* One pass of loop().  connected: wm.autoConnect() returned true; saved: the value
\* the portal's save callback stored ("unsaved" when it did not run); wifiUp:
\* WiFi.status() == WL_CONNECTED; resp: the answer of the zone list; rs[i]: what
\* fetchAndDrawZone returns for ZONES[i].
V12_Loop ==
    /\ firmware = "v12"
    /\ \E connected \in V12_IfConnecting(BOOLEAN),
          saved \in V12_IfConnecting({"unsaved", "", DEFAULT_SERVER_URL}),
          wifiUp \in BOOLEAN :
         LET connecting == ~wifiConnected
             url == IF connecting /\ saved # "unsaved" THEN saved ELSE serverUrl
             drawDone == IF connecting THEN FALSE ELSE initialDrawDone
             needsFull == V12_needsFull(drawDone)
             quiet == /\ ops' = <<>> /\ requests' = <<>> /\ NoCycleHistory
                      /\ reportedChanged' = reportedChanged
                      /\ UNCHANGED <<sinceFullRefresh, partialCount>>
         IN /\ serverUrl' = url
            /\ IF connecting /\ ~connected
               THEN /\ wifiConnected' = FALSE
                    /\ UNCHANGED <<initialDrawDone, sinceRefresh>>
                    /\ quiet
               ELSE IF ~wifiUp
               THEN /\ wifiConnected' = FALSE
                    /\ initialDrawDone' = drawDone
                    /\ UNCHANGED sinceRefresh
                    /\ quiet
               ELSE IF url = ""
               THEN /\ wifiConnected' = TRUE
                    /\ initialDrawDone' = drawDone
                    /\ UNCHANGED sinceRefresh
                    /\ quiet
               ELSE IF ~(sinceRefresh >= V12_REFRESH_INTERVAL \/ ~drawDone)
               THEN /\ wifiConnected' = TRUE
                    /\ initialDrawDone' = drawDone
                    /\ UNCHANGED sinceRefresh
                    /\ quiet
               ELSE \E resp \in V12_MetaResponses :
                      LET list == V12_fetchChangedZoneList(needsFull, resp)
                      IN /\ wifiConnected' = TRUE
                         /\ sinceRefresh' = 0
                         /\ IF ~list.ok
                            THEN /\ initialDrawDone' = drawDone
                                 /\ ops' = <<>> /\ requests' = list.requests
                                 /\ NoCycleHistory
                                 /\ reportedChanged' = reportedChanged
                                 /\ UNCHANGED <<sinceFullRefresh, partialCount>>
                            ELSE \E rs \in [V12_Attempted(needsFull, list.changedFlags)
                                               -> V12_ZoneResults(~needsFull)] :
                                   LET start == [drawn |-> 0, count |-> partialCount,
                                                 ops |-> <<>>, requests |-> list.requests,
                                                 failed |-> {},
                                                 sinceFull |-> sinceFullRefresh,
                                                 initialDrawDone |-> drawDone]
                                       done == V12_LoopDone(needsFull,
                                                 V12_ZoneLoop(1, needsFull,
                                                              list.changedFlags, rs, start))
                                   IN /\ ops' = done.ops
                                      /\ requests' = done.requests
                                      /\ failed' = done.failed
                                      /\ sinceFullRefresh' = done.sinceFull
                                      /\ partialCount' = done.count
                                      /\ initialDrawDone' = done.initialDrawDone
                                      /\ reportedChanged' = resp.changed
                                      /\ cycle' = [active |-> TRUE, needsFull |-> needsFull,
                                                   drawn |-> done.drawn,
                                                   startCount |-> partialCount,
                                                   firstDraw |-> ~initialDrawDone]
    /\ UNCHANGED <<v6Vars, bleVars>>
    /\ UNCHANGED <<firmware, currentState, partialRefreshCount, consecutiveErrors,
                   sinceError, zoneChanged>>
    /\ response' = NoResponse
    /\ UNCHANGED <<bleTaskVars, tieredVars, zoneBuffer, result, backoffWait>>

\* loop() of zones-v12.cpp
V12Next ==
    \/ V12_Tick
    \/ V12_Loop

SpecV12 == V12Init /\ [][V12Next]_vars

(***************************************************************************)
(* main-ble.cpp                                                            *)
(***************************************************************************)
BLE_REFRESH_INTERVAL_MS == 60000
BLE_FULL_REFRESH_INTERVAL_MS == 600000
BLE_MAX_PARTIAL_BEFORE_FULL == 30
BLE_ZONE_COUNT == 5
BLE_ZONE_BUFFER_SIZE == 40000
BLE_MAX_BACKOFF_ERRORS == 5
BLE_MAX_WIFI_FAILURES == 3
BLE_DATA_OFFSET == 62

\* The delays of setup(): delay(500) after Serial.begin(), delay(2000) after
\* showBootScreen().
BLE_SerialDelay == 500
BLE_BootScreenDelay == 2000

\* A non-empty value of wifiSSID and of wifiPassword.
BLE_SSID == "ssid"
BLE_PASSWORD == "password"

\* The three credential characteristics a BLE central can write.
BLE_Characteristics == {"CHAR_SSID_UUID", "CHAR_PASSWORD_UUID", "CHAR_URL_UUID"}

\* The answers of GET /api/zones?zone=<id>&format=bmp.  bytesRead: what
\* stream->readBytes(zoneBuffer, len) returned.
BLE_ZoneAnswer(b, c, len, rd) ==
    [begin |-> b, httpCode |-> c, contentLen |-> len, bytesRead |-> rd]

BLE_ZoneResponses ==
    { BLE_ZoneAnswer(TRUE, 200, 9462, 9462),
      BLE_ZoneAnswer(FALSE, 0, 0, 0),
      BLE_ZoneAnswer(TRUE, 500, 0, 0),
      BLE_ZoneAnswer(TRUE, 200, 0, 0),
      BLE_ZoneAnswer(TRUE, 200, 40001, 0),
      BLE_ZoneAnswer(TRUE, 200, 9462, 4096) }

\* bool fetchAndDrawZone(const ZoneDef& zone, bool flash): the result and the kinds
\* of the display operations it issues.
BLE_fetchAndDrawZone(flash, resp) ==
    IF ~resp.begin THEN [ok |-> FALSE, ops |-> <<>>]
    ELSE IF resp.httpCode # 200 THEN [ok |-> FALSE, ops |-> <<>>]
    ELSE IF resp.contentLen <= 0 \/ resp.contentLen > BLE_ZONE_BUFFER_SIZE
    THEN [ok |-> FALSE, ops |-> <<>>]
    ELSE IF resp.bytesRead # resp.contentLen THEN [ok |-> FALSE, ops |-> <<>>]
    ELSE [ok |-> TRUE,
          ops |-> IF resp.contentLen > BLE_DATA_OFFSET THEN <<"drawBitmap">> ELSE <<>>]

BLE_ZoneResults == {BLE_fetchAndDrawZone(FALSE, r) : r \in BLE_ZoneResponses}

\* bool fetchZoneList(bool forceAll): the result and zoneChanged[] after it.
BLE_fetchZoneList(forceAll) ==
    IF ~wifiConnected \/ serverUrl = ""
    THEN [ok |-> FALSE, zoneChanged |-> zoneChanged]
    ELSE [ok |-> TRUE, zoneChanged |-> [i \in 1..BLE_ZONE_COUNT |-> TRUE]]

\* One call fetchAndDrawZone(ZONES[i], false) whose return value is discarded, as
\* doFullRefresh() and doPartialRefresh() make it.
BLE_FetchZone(i, r, acc) ==
    [acc EXCEPT !.requests = Append(@, ZoneRequest(i)),
                !.ops = @ \o TagZone(r.ops, i),
                !.drawn = IF r.ok THEN @ + 1 ELSE @,
                !.failed = IF r.ok THEN @ ELSE @ \cup {i}]

\* The zone loop of doFullRefresh() from index i on.
RECURSIVE BLE_FullLoop(_, _, _)
BLE_FullLoop(i, rs, acc) ==
    IF i > BLE_ZONE_COUNT THEN acc
    ELSE BLE_FullLoop(i + 1, rs, BLE_FetchZone(i, rs[i], acc))

\* void doFullRefresh(): fillScreen, every zone, writePlane, refresh(true)
BLE_doFullRefresh(rs, acc) ==
    LET cleared == [acc EXCEPT !.ops = Append(@, FillScreen)]
        looped == BLE_FullLoop(1, rs, cleared)
    IN [looped EXCEPT !.ops = Append(@, RefreshFull)]

\* The body of the loop of doPartialRefresh() for ZONES[i]:
\* if (zoneChanged[i]) { fetchAndDrawZone(ZONES[i], false); zoneChanged[i] = false;
\*                       anyChanged = true; }
BLE_PartialZone(i, r, acc) ==
    IF acc.zoneChanged[i]
    THEN [BLE_FetchZone(i, r, acc) EXCEPT !.zoneChanged[i] = FALSE, !.anyChanged = TRUE]
    ELSE acc

\* The zone loop of doPartialRefresh() from index i on.
RECURSIVE BLE_PartialLoop(_, _, _)
BLE_PartialLoop(i, rs, acc) ==
    IF i > BLE_ZONE_COUNT THEN acc
    ELSE BLE_PartialLoop(i + 1, rs, BLE_PartialZone(i, rs[i], acc))

\* void doPartialRefresh(): the changed zones, then writePlane and refresh(false)
\* if there was one.
BLE_doPartialRefresh(rs, acc) ==
    LET looped == BLE_PartialLoop(1, rs, acc)
    IN IF looped.anyChanged
       THEN [looped EXCEPT !.ops = Append(@, RefreshPartial(0))]
       ELSE looped

\* What a refresh starts from.
BLE_RefreshStart ==
    [drawn |-> 0, ops |-> <<>>, requests |-> <<>>, failed |-> {},
     zoneChanged |-> zoneChanged, anyChanged |-> FALSE]

\* The zones whose fetch result a refresh depends on.
BLE_Fetched(full) == IF full THEN 1..BLE_ZONE_COUNT
                     ELSE {i \in 1..BLE_ZONE_COUNT : zoneChanged[i]}

\* A result for every zone; the zones that are not fetched get a fixed one.
BLE_ResultVectors(full) ==
    {rs \in [1..BLE_ZONE_COUNT -> BLE_ZoneResults] :
        \A i \in (1..BLE_ZONE_COUNT) \ BLE_Fetched(full) :
            rs[i] = BLE_fetchAndDrawZone(FALSE, BLE_ZoneAnswer(FALSE, 0, 0, 0))}

\* The state setup() leaves when malloc() succeeds: the credentials and the URL are
\* what loadSettings() read.
BleInit ==
    /\ firmware = "ble"
    /\ wifiSSID \in {"", BLE_SSID}
    /\ wifiPassword \in {"", BLE_PASSWORD}
    /\ serverUrl \in {"", DEFAULT_SERVER_URL}
    /\ currentState = IF wifiSSID # "" /\ wifiPassword # "" THEN "STATE_WIFI_CONNECT"
                      ELSE "STATE_BLE_PROVISION"
    /\ bleCredentialsReceived = FALSE
    /\ bleInitialized = FALSE
    /\ NotTiered
    /\ NoBleTask
    /\ wifiConnected = FALSE
    /\ initialDrawDone = FALSE
    /\ sinceRefresh = BLE_SerialDelay + BLE_BootScreenDelay
    /\ sinceFullRefresh = BLE_SerialDelay + BLE_BootScreenDelay
    /\ partialRefreshCount = 0
    /\ partialCount = 0
    /\ consecutiveErrors = 0
    /\ sinceError = 0
    /\ zoneChanged = [i \in 1..BLE_ZONE_COUNT |-> FALSE]
    /\ setupRequired = FALSE
    /\ pairingMode = FALSE
    /\ sincePairingStart = 0
    /\ pairingScreenShown = FALSE
    /\ sincePoll = 0
    /\ waitingScreenShown = FALSE
    /\ ops = <<>>
    /\ requests = <<>>
    /\ failed = {}
    /\ reportedChanged = {}
    /\ cycle = NoCycle
    /\ zoneBuffer = "allocated"
    /\ response = NoResponse
    /\ result = NoResult
    /\ backoffWait = 0

\* Time passes between two passes of loop().
BLE_Tick ==
    /\ firmware = "ble"
    /\ \E e \in TimeSteps :
         /\ sinceRefresh' = Min(sinceRefresh + e, BLE_REFRESH_INTERVAL_MS)
         /\ sinceFullRefresh' = Min(sinceFullRefresh + e, BLE_FULL_REFRESH_INTERVAL_MS)
    /\ ops' = <<>> /\ requests' = <<>> /\ NoCycleHistory
    /\ UNCHANGED <<v6Vars, bleVars>>
    /\ UNCHANGED <<firmware, currentState, serverUrl, wifiConnected, initialDrawDone,
                   partialRefreshCount, partialCount, consecutiveErrors, sinceError,
                   zoneChanged, reportedChanged>>
    /\ response' = NoResponse
    /\ UNCHANGED <<bleTaskVars, tieredVars, zoneBuffer, result, backoffWait>>

\* CredentialCallbacks::onWrite on the BLE task, up to the assignment of
\* bleCredentialsReceived: the value is copied, and a URL written when the SSID and
\* the password are set raises the flag before saveSettings() and notify() are
\* called.  The BLE task runs one callback at a time.
BLE_onWrite ==
    /\ firmware = "ble" /\ bleInitialized /\ blePc = "idle"
    /\ \E uuid \in BLE_Characteristics, value \in {"", "written"} :
         IF value = ""
         THEN UNCHANGED <<wifiSSID, wifiPassword, serverUrl, bleCredentialsReceived,
                          bleTaskVars>>
         ELSE /\ bleWritten' = bleWritten \cup {uuid}
              /\ IF uuid = "CHAR_SSID_UUID"
                 THEN /\ wifiSSID' = BLE_SSID
                      /\ UNCHANGED <<wifiPassword, serverUrl, bleCredentialsReceived,
                                     blePc>>
                 ELSE IF uuid = "CHAR_PASSWORD_UUID"
                 THEN /\ wifiPassword' = BLE_PASSWORD
                      /\ UNCHANGED <<wifiSSID, serverUrl, bleCredentialsReceived, blePc>>
                 ELSE /\ serverUrl' = DEFAULT_SERVER_URL
                      /\ IF wifiSSID # "" /\ wifiPassword # ""
                         THEN /\ bleCredentialsReceived' = TRUE
                              /\ blePc' = "saveSettings"
                         ELSE UNCHANGED <<bleCredentialsReceived, blePc>>
                      /\ UNCHANGED <<wifiSSID, wifiPassword>>
    /\ UNCHANGED <<ops, requests, failed, cycle>>
    /\ UNCHANGED v6Vars
    /\ UNCHANGED <<firmware, currentState, wifiConnected, initialDrawDone, sinceRefresh,
                   sinceFullRefresh, partialRefreshCount, partialCount,
                   consecutiveErrors, sinceError, zoneChanged, bleInitialized,
                   reportedChanged>>
    /\ UNCHANGED <<tieredVars, zoneBuffer, response, result, backoffWait>>

\* What no step of the BLE task inside onWrite touches.
BLE_TaskFixed == <<firmware, currentState, serverUrl, wifiConnected, initialDrawDone,
                   sinceRefresh, sinceFullRefresh, partialRefreshCount, partialCount,
                   consecutiveErrors, sinceError, zoneChanged, wifiSSID, wifiPassword,
                   bleCredentialsReceived, bleInitialized, bleWritten, reportedChanged,
                   ops, requests, failed, cycle, tieredVars, zoneBuffer, response,
                   result, backoffWait>>

\* onWrite: saveSettings() returns.
BLE_onWriteSave ==
    /\ firmware = "ble" /\ blePc = "saveSettings"
    /\ blePc' = "notify"
    /\ UNCHANGED v6Vars
    /\ UNCHANGED BLE_TaskFixed

\* The chip resets and setup() runs again: every global is initialised anew and
\* loadSettings() reads the credentials and the URL from flash.
BLE_Restart ==
    /\ UNCHANGED firmware
    /\ wifiSSID' \in {"", BLE_SSID}
    /\ wifiPassword' \in {"", BLE_PASSWORD}
    /\ serverUrl' \in {"", DEFAULT_SERVER_URL}
    /\ currentState' = IF wifiSSID' # "" /\ wifiPassword' # ""
                       THEN "STATE_WIFI_CONNECT" ELSE "STATE_BLE_PROVISION"
    /\ bleCredentialsReceived' = FALSE
    /\ bleInitialized' = FALSE
    /\ UNCHANGED tieredVars
    /\ blePc' = "idle" /\ bleWritten' = {}
    /\ wifiConnected' = FALSE
    /\ initialDrawDone' = FALSE
    /\ sinceRefresh' = BLE_SerialDelay + BLE_BootScreenDelay
    /\ sinceFullRefresh' = BLE_SerialDelay + BLE_BootScreenDelay
    /\ partialRefreshCount' = 0
    /\ partialCount' = 0
    /\ consecutiveErrors' = 0
    /\ sinceError' = 0
    /\ zoneChanged' = [i \in 1..BLE_ZONE_COUNT |-> FALSE]
    /\ setupRequired' = FALSE
    /\ pairingMode' = FALSE
    /\ sincePairingStart' = 0
    /\ pairingScreenShown' = FALSE
    /\ sincePoll' = 0
    /\ waitingScreenShown' = FALSE
    /\ ops' = <<>>
    /\ requests' = <<>>
    /\ failed' = {}
    /\ reportedChanged' = {}
    /\ cycle' = NoCycle
    /\ zoneBuffer' = "allocated"
    /\ response' = NoResponse
    /\ result' = NoResult
    /\ backoffWait' = 0

\* onWrite: pCharStatus->setValue() and notify().  stopBLE() leaves pCharStatus
\* pointing into the stack BLEDevice::deinit(true) released, so after stopBLE() the
\* two calls are undefined: they return, or the chip resets and runs setup() again.
BLE_onWriteNotify ==
    /\ firmware = "ble" /\ blePc = "notify"
    /\ \/ /\ blePc' = "idle"
          /\ UNCHANGED v6Vars
          /\ UNCHANGED BLE_TaskFixed
       \/ /\ ~bleInitialized
          /\ BLE_Restart

\* case STATE_BLE_PROVISION.  The 5-minute timeout only restarts its own timer.
BLE_StateBleProvision ==
    /\ firmware = "ble" /\ currentState = "STATE_BLE_PROVISION"
    /\ ops' = IF ~bleInitialized THEN ScreenOps ELSE <<>>
    /\ IF bleCredentialsReceived
       THEN /\ bleInitialized' = FALSE
            /\ currentState' = "STATE_WIFI_CONNECT"
       ELSE /\ bleInitialized' = TRUE
            /\ UNCHANGED currentState
    /\ requests' = <<>> /\ NoCycleHistory
    /\ UNCHANGED v6Vars
    /\ UNCHANGED <<firmware, serverUrl, wifiConnected, initialDrawDone, sinceRefresh,
                   sinceFullRefresh, partialRefreshCount, partialCount,
                   consecutiveErrors, sinceError, zoneChanged, wifiSSID, wifiPassword,
                   bleCredentialsReceived, reportedChanged>>
    /\ response' = NoResponse
    /\ bleWritten' = IF bleInitialized /\ ~bleCredentialsReceived THEN bleWritten ELSE {}
    /\ UNCHANGED <<blePc, tieredVars, zoneBuffer, result, backoffWait>>

\* case STATE_WIFI_CONNECT.  connected: connectWiFi() returned true.
BLE_StateWifiConnect ==
    /\ firmware = "ble" /\ currentState = "STATE_WIFI_CONNECT"
    /\ ops' = ScreenOps
    /\ \E connected \in BOOLEAN :
         IF connected
         THEN /\ wifiConnected' = TRUE
              /\ serverUrl' = IF serverUrl = "" THEN DEFAULT_SERVER_URL ELSE serverUrl
              /\ currentState' = "STATE_FETCH_ZONES"
              /\ consecutiveErrors' = 0
              /\ UNCHANGED <<wifiSSID, wifiPassword>>
         ELSE IF consecutiveErrors + 1 >= BLE_MAX_WIFI_FAILURES
         THEN /\ wifiSSID' = "" /\ wifiPassword' = ""
              /\ currentState' = "STATE_BLE_PROVISION"
              /\ consecutiveErrors' = 0
              /\ UNCHANGED <<wifiConnected, serverUrl>>
         ELSE /\ consecutiveErrors' = consecutiveErrors + 1
              /\ UNCHANGED <<wifiConnected, serverUrl, currentState, wifiSSID,
                             wifiPassword>>
    /\ requests' = <<>> /\ NoCycleHistory
    /\ UNCHANGED v6Vars
    /\ UNCHANGED <<firmware, initialDrawDone, sinceRefresh, sinceFullRefresh,
                   partialRefreshCount, partialCount, sinceError, zoneChanged,
                   bleCredentialsReceived, bleInitialized, reportedChanged>>
    /\ response' = NoResponse
    /\ UNCHANGED <<bleTaskVars, tieredVars, zoneBuffer, result, backoffWait>>

\* case STATE_FETCH_ZONES
BLE_StateFetchZones ==
    /\ firmware = "ble" /\ currentState = "STATE_FETCH_ZONES"
    /\ LET list == BLE_fetchZoneList(TRUE)
       IN /\ zoneChanged' = list.zoneChanged
          /\ IF list.ok
             THEN /\ currentState' = "STATE_RENDER"
                  /\ UNCHANGED consecutiveErrors
             ELSE /\ consecutiveErrors' = consecutiveErrors + 1
                  /\ currentState' = IF consecutiveErrors + 1 > BLE_MAX_BACKOFF_ERRORS
                                     THEN "STATE_ERROR" ELSE "STATE_FETCH_ZONES"
    /\ ops' = <<>> /\ requests' = <<>> /\ NoCycleHistory
    /\ UNCHANGED <<v6Vars, bleVars>>
    /\ UNCHANGED <<firmware, serverUrl, wifiConnected, initialDrawDone, sinceRefresh,
                   sinceFullRefresh, partialRefreshCount, partialCount, sinceError,
                   reportedChanged>>
    /\ response' = NoResponse
    /\ UNCHANGED <<bleTaskVars, tieredVars, zoneBuffer, result, backoffWait>>

\* case STATE_RENDER.  rs[i]: what fetchAndDrawZone returns for ZONES[i].
BLE_StateRender ==
    /\ firmware = "ble" /\ currentState = "STATE_RENDER"
    /\ IF ~initialDrawDone
       THEN \E rs \in BLE_ResultVectors(TRUE) :
              LET done == BLE_doFullRefresh(rs, BLE_RefreshStart)
              IN /\ ops' = done.ops
                 /\ requests' = done.requests
                 /\ failed' = done.failed
                 /\ cycle' = [active |-> TRUE, needsFull |-> TRUE, drawn |-> done.drawn,
                              startCount |-> partialRefreshCount,
                              firstDraw |-> ~initialDrawDone]
                 /\ initialDrawDone' = TRUE
                 /\ sinceFullRefresh' = 0
       ELSE /\ ops' = <<>> /\ requests' = <<>> /\ NoCycleHistory
            /\ UNCHANGED <<initialDrawDone, sinceFullRefresh>>
    /\ currentState' = "STATE_IDLE"
    /\ sinceRefresh' = 0
    /\ UNCHANGED <<v6Vars, bleVars>>
    /\ UNCHANGED <<firmware, serverUrl, wifiConnected, partialRefreshCount, partialCount,
                   consecutiveErrors, sinceError, zoneChanged, reportedChanged>>
    /\ response' = NoResponse
    /\ UNCHANGED <<bleTaskVars, tieredVars, zoneBuffer, result, backoffWait>>

\* case STATE_IDLE.  rs[i]: what fetchAndDrawZone returns for ZONES[i].
BLE_StateIdle ==
    /\ firmware = "ble" /\ currentState = "STATE_IDLE"
    /\ IF sinceRefresh >= BLE_REFRESH_INTERVAL_MS
       THEN LET full == \/ sinceFullRefresh >= BLE_FULL_REFRESH_INTERVAL_MS
                        \/ partialRefreshCount >= BLE_MAX_PARTIAL_BEFORE_FULL
            IN \E rs \in BLE_ResultVectors(full) :
                 LET done == IF full THEN BLE_doFullRefresh(rs, BLE_RefreshStart)
                             ELSE BLE_doPartialRefresh(rs, BLE_RefreshStart)
                 IN /\ ops' = done.ops
                    /\ requests' = done.requests
                    /\ failed' = done.failed
                    /\ zoneChanged' = done.zoneChanged
                    /\ cycle' = [active |-> TRUE, needsFull |-> full,
                                 drawn |-> done.drawn,
                                 startCount |-> partialRefreshCount,
                                 firstDraw |-> ~initialDrawDone]
                    /\ sinceFullRefresh' = IF full THEN 0 ELSE sinceFullRefresh
                    /\ partialRefreshCount' = IF full THEN 0
                                              ELSE partialRefreshCount + 1
                    /\ sinceRefresh' = 0
       ELSE /\ ops' = <<>> /\ requests' = <<>> /\ NoCycleHistory
            /\ UNCHANGED <<zoneChanged, sinceFullRefresh, partialRefreshCount,
                           sinceRefresh>>
    /\ UNCHANGED <<v6Vars, bleVars>>
    /\ UNCHANGED <<firmware, currentState, serverUrl, wifiConnected, initialDrawDone,
                   partialCount, consecutiveErrors, sinceError, reportedChanged>>
    /\ response' = NoResponse
    /\ UNCHANGED <<bleTaskVars, tieredVars, zoneBuffer, result, backoffWait>>

\* loop() of main-ble.cpp, and the BLE stack's callback.  setup() leaves
\* STATE_WIFI_CONNECT or STATE_BLE_PROVISION; no case assigns STATE_INIT or
\* STATE_BOOT, and STATE_ERROR is assigned only when fetchZoneList() fails in
\* STATE_FETCH_ZONES, which is entered with wifiConnected true and a non-empty
\* serverUrl.
BleNext ==
    \/ BLE_Tick
    \/ BLE_onWrite
    \/ BLE_onWriteSave
    \/ BLE_onWriteNotify
    \/ BLE_StateBleProvision
    \/ BLE_StateWifiConnect
    \/ BLE_StateFetchZones
    \/ BLE_StateRender
    \/ BLE_StateIdle

SpecBle == BleInit /\ [][BleNext]_vars

(***************************************************************************)
(* Any of the four builds.                                                 *)
(***************************************************************************)
Init == V6Init \/ V7Init \/ V12Init \/ BleInit

Next == V6Next \/ V7Next \/ V12Next \/ BleNext

Spec == Init /\ [][Next]_vars

(***************************************************************************)
(* Properties of the refresh controllers.  They are stated over the state  *)
(* a pass of loop() leaves: cycle.active says the pass ran a refresh       *)
(* cycle, and ops, requests and failed are what that cycle did.            *)
(***************************************************************************)
\* The operations of the last pass that belong to zone i, in order.
OpsOfZone(i) ==
    LET idx == {k \in 1..Len(ops) : ops[k][2] = i}
        Rank(k) == Cardinality({j \in idx : j <= k})
    IN [n \in 1..Cardinality(idx) |-> ops[CHOOSE k \in idx : Rank(k) = n]]

\* The last pass issued an operation of this kind.
HasOp(kind) == \E k \in 1..Len(ops) : ops[k][1] = kind

\* The last pass requested the image of zone i.
Requested(i) == \E k \in 1..Len(requests) : requests[k] = ZoneRequest(i)

\* C1 (main-v6.cpp, main-v7.cpp): a refresh cycle that starts with
\* partialRefreshCount >= MAX_PARTIAL_BEFORE_FULL has needsFull true, and no
\* zone gets a per-zone partial refresh (or a flash) in it.
C1_ForcedFull ==
    (/\ firmware \in {"v6", "v7"}
     /\ cycle.active
     /\ cycle.startCount >= (IF firmware = "v6" THEN V6_MAX_PARTIAL_BEFORE_FULL
                             ELSE V7_MAX_PARTIAL_BEFORE_FULL))
    => (cycle.needsFull /\ ~HasOp("refresh_PARTIAL") /\ ~HasOp("fillRect_BLACK"))

\* A v6 cycle that started at the ceiling and drew every zone.
C1_Witness ==
    /\ firmware = "v6"
    /\ cycle.active
    /\ cycle.startCount >= V6_MAX_PARTIAL_BEFORE_FULL
    /\ cycle.drawn = V6_ZONE_COUNT
    /\ HasOp("refresh_FULL")

\* C2 (main-v6.cpp), as stated: partialRefreshCount never exceeds
\* MAX_PARTIAL_BEFORE_FULL in any reachable state.
C2_CountWithinCeiling ==
    firmware = "v6" => partialRefreshCount <= V6_MAX_PARTIAL_BEFORE_FULL

\* C3 (main-v6.cpp), as stated: after every pass that issued a full panel refresh
\* (doFullRefresh in STATE_RENDER, showErrorScreen, showPairingScreen,
\* showConfiguredScreen) partialRefreshCount is 0; nothing but STATE_RENDER writes
\* the counter, so this is its value when the next cycle starts.
C3_FullRefreshResetsCount ==
    (firmware = "v6" /\ HasOp("refresh_FULL")) => partialRefreshCount = 0

\* C4 (main-v6.cpp, main-v7.cpp, zones-v12.cpp): right after a cycle with needsFull
\* true that drew at least one zone, the partial counter is 0, lastFullRefresh is
\* the cycle's now (no time has passed since it) and initialDrawDone is true.
C4_FullCycleResets ==
    (/\ firmware \in {"v6", "v7", "v12"}
     /\ cycle.active
     /\ cycle.needsFull
     /\ cycle.drawn > 0)
    => (/\ (IF firmware = "v12" THEN partialCount ELSE partialRefreshCount) = 0
        /\ sinceFullRefresh = 0
        /\ initialDrawDone)

\* A v12 full cycle that drew a zone and started with a counter above 0.
C4_Witness ==
    /\ firmware = "v12"
    /\ cycle.active
    /\ cycle.needsFull
    /\ cycle.drawn > 0
    /\ cycle.startCount > 0

\* C5 (main-v7.cpp), as stated: after a cycle with needsFull false in which k >= 1
\* zones were drawn and partially refreshed, partialRefreshCount has grown by k.
C5_CountGrowsByZones ==
    (/\ firmware = "v7"
     /\ cycle.active
     /\ ~cycle.needsFull
     /\ cycle.drawn >= 1)
    => partialRefreshCount = cycle.startCount + cycle.drawn

\* C6 (main-v6.cpp): in a cycle with needsFull false, the display operations of
\* every zone whose update succeeds are exactly fillRect(BLACK), refresh(PARTIAL),
\* loadBMP, refresh(PARTIAL) in this order, and the operations of one zone all come
\* before those of the next.
C6_FlashDrawRefresh ==
    (firmware = "v6" /\ cycle.active /\ ~cycle.needsFull)
    => (/\ \A a, b \in 1..Len(ops) : a < b => ops[a][2] <= ops[b][2]
        /\ \A i \in 1..V6_ZONE_COUNT :
             (Requested(i) /\ i \notin failed)
             => OpsOfZone(i) = <<FillRectBlack(i), RefreshPartial(i), LoadBMP(i),
                                 RefreshPartial(i)>>)

\* A partial cycle in which every zone succeeded.
C6_Witness ==
    /\ firmware = "v6"
    /\ cycle.active
    /\ ~cycle.needsFull
    /\ cycle.drawn = V6_ZONE_COUNT
    /\ failed = {}

\* C7 (main-v6.cpp): in a cycle with needsFull true in which every zone's update
\* succeeds, every zone is requested and drawn once, in order, with no flash and no
\* refresh(PARTIAL); one refresh(FULL) follows the last zone; partialRefreshCount
\* is 0 afterwards.
C7_FullCycleOneRefresh ==
    (firmware = "v6" /\ cycle.active /\ cycle.needsFull /\ failed = {})
    => (/\ ops = [k \in 1..(V6_ZONE_COUNT + 1) |->
                    IF k <= V6_ZONE_COUNT THEN LoadBMP(k) ELSE RefreshFull]
        /\ requests = [k \in 1..V6_ZONE_COUNT |-> ZoneRequest(k)]
        /\ partialRefreshCount = 0)

\* A full cycle forced by the ceiling in which every zone succeeded.
C7_Witness ==
    /\ firmware = "v6"
    /\ cycle.active
    /\ cycle.needsFull
    /\ failed = {}
    /\ cycle.startCount >= V6_MAX_PARTIAL_BEFORE_FULL
    /\ cycle.drawn = V6_ZONE_COUNT

\* The zones STATE_RENDER calls fetchAndDrawZone for, in the order of ZONES[].
V6_IsAttempted(i) == zoneChanged[i] \/ V6_needsFull

C8_AttemptOrder ==
    LET zones == SelectSeq([i \in 1..V6_ZONE_COUNT |-> i], V6_IsAttempted)
    IN [k \in 1..Len(zones) |-> ZoneRequest(zones[k])]

\* C8 (main-v6.cpp): a STATE_RENDER pass in which fetchAndDrawZone fails for some
\* zone requests every zone it has to process once, in the order of ZONES[] (the
\* failed zone is not retried, the later ones are still attempted), leaves
\* consecutiveErrors and lastErrorTime unchanged, and ends in STATE_IDLE.
C8_FailureIsolation ==
    [][(/\ firmware = "v6"
        /\ currentState = "STATE_RENDER"
        /\ currentState' # "STATE_RENDER"
        /\ failed' # {})
       => (/\ requests' = C8_AttemptOrder
           /\ consecutiveErrors' = consecutiveErrors
           /\ sinceError' = sinceError
           /\ currentState' = "STATE_IDLE")]_vars

\* A partial cycle in which the second zone failed and the other four were drawn.
C8_Witness ==
    /\ firmware = "v6"
    /\ cycle.active
    /\ ~cycle.needsFull
    /\ failed = {2}
    /\ cycle.drawn = V6_ZONE_COUNT - 1
    /\ currentState = "STATE_IDLE"

\* C9 (main-ble.cpp), as stated: after doPartialRefresh(), zoneChanged[i] is still
\* true for every zone whose fetchAndDrawZone call failed.
C9_FailedZoneStaysChanged ==
    (firmware = "ble" /\ cycle.active /\ ~cycle.needsFull)
    => \A i \in failed : zoneChanged[i]

\* C10 (main-v6.cpp), as stated: in a cycle with needsFull false, a zone the server
\* reported as unchanged is neither requested nor drawn, and when no zone changed
\* the cycle makes no request and no display operation.
C10_UnchangedNotFetched ==
    (firmware = "v6" /\ cycle.active /\ ~cycle.needsFull)
    => (/\ \A i \in (1..V6_ZONE_COUNT) \ reportedChanged :
              ~Requested(i) /\ OpsOfZone(i) = <<>>
        /\ reportedChanged = {} => (requests = <<>> /\ ops = <<>>))

(***************************************************************************)
(* Properties of the error handling.  response is the answer of the       *)
(* metadata check the last pass of main-v6.cpp made, if it made one.       *)
(***************************************************************************)
\* The metadata answer is HTTP 200 with the setup-required indicator.
SetupRequiredAnswer(a) == a.begin /\ a.httpCode = 200 /\ a.setupKey /\ a.trueLiteral

\* The metadata check failed for a transport reason.
TransportFailure(a) == ~a.begin \/ a.httpCode # 200

\* C11 (main-v6.cpp): a STATE_FETCH_ZONES pass whose metadata check answers HTTP 200
\* with the setup-required indicator leaves consecutiveErrors, lastErrorTime and
\* lastRefresh unchanged, goes to STATE_SETUP_REQUIRED (not STATE_RENDER), and
\* requests and draws no zone.
C11_SetupRequiredNeutral ==
    [][(/\ firmware = "v6"
        /\ currentState = "STATE_FETCH_ZONES"
        /\ response'.kind = "metadata"
        /\ SetupRequiredAnswer(response'.answer))
       => (/\ consecutiveErrors' = consecutiveErrors
           /\ sinceError' = sinceError
           /\ sinceRefresh' = sinceRefresh
           /\ currentState' = "STATE_SETUP_REQUIRED"
           /\ requests' = <<MetaRequest>>
           /\ ops' = <<>>
           /\ ~cycle'.active)]_vars

\* A setup-required answer that arrived after an earlier failed cycle.
C11_Witness ==
    /\ firmware = "v6"
    /\ response.kind = "metadata"
    /\ SetupRequiredAnswer(response.answer)
    /\ consecutiveErrors >= 1
    /\ currentState = "STATE_SETUP_REQUIRED"

FetchZonesPass ==
    \/ firmware = "v6" /\ V6_StateFetchZones
    \/ firmware = "v7" /\ V7_StateFetchZones

BackoffDelay == IF firmware = "v6" THEN V6_getBackoffDelay(consecutiveErrors)
                ELSE V7_getBackoffDelay(consecutiveErrors)

\* C13 (main-v6.cpp, main-v7.cpp), as stated: a STATE_FETCH_ZONES pass taken while
\* consecutiveErrors >= 1 and now - lastErrorTime < getBackoffDelay() makes no
\* request, draws nothing and leaves the timers and counters unchanged; and a pass
\* attempts a cycle only once the delay computed at the last failure has elapsed.
C13_BackoffGating ==
    [][/\ (/\ FetchZonesPass
           /\ consecutiveErrors >= 1
           /\ sinceError < BackoffDelay)
          => (/\ requests' = <<>> /\ ops' = <<>> /\ ~cycle'.active
              /\ response'.kind = "none"
              /\ UNCHANGED <<consecutiveErrors, sinceError, sinceRefresh,
                             sinceFullRefresh, partialRefreshCount>>)
       /\ (/\ FetchZonesPass
           /\ (response'.kind = "metadata" \/ cycle'.active))
          => backoffWait = 0]_vars

\* C14 (main-v6.cpp, main-tiered.cpp, main-v7.cpp): for the number n >= 1 of
\* consecutive failures the controller has counted, getBackoffDelay for n + 1 is at
\* least getBackoffDelay for n, and neither exceeds the cap (32000 ms in v6 and
\* tiered, 60000 ms in v7).
C14_BackoffMonotone ==
    (firmware \in {"v6", "v7"} /\ consecutiveErrors >= 1)
    => LET n == consecutiveErrors
       IN /\ V6_getBackoffDelay(n) <= V6_getBackoffDelay(n + 1)
          /\ V6_getBackoffDelay(n + 1) <= Pow2(V6_MAX_BACKOFF_ERRORS) * 1000
          /\ TIERED_getBackoffDelay(n) <= TIERED_getBackoffDelay(n + 1)
          /\ TIERED_getBackoffDelay(n + 1) <= Pow2(TIERED_MAX_BACKOFF_ERRORS) * 1000
          /\ V7_getBackoffDelay(n) <= V7_getBackoffDelay(n + 1)
          /\ V7_getBackoffDelay(n + 1) <= V7_BACKOFF_CAP_MS

\* The controller has counted more failures than the exponent cap of either build.
C14_Witness ==
    /\ firmware = "v7"
    /\ consecutiveErrors > V6_MAX_BACKOFF_ERRORS
    /\ backoffWait = V7_BACKOFF_CAP_MS

C17_NoBufferIsFatal ==
    (firmware = "v6" /\ zoneBuffer = "nullptr")
    => (/\ currentState \notin {"STATE_FETCH_ZONES", "STATE_RENDER"}
        /\ ~cycle.active
        /\ \A i \in 1..V6_ZONE_COUNT : ~Requested(i))

(***************************************************************************)
(* main-v6.cpp with the scheduling its recovery rests on: loop() keeps     *)
(* being called (every case that can change the state eventually does),    *)
(* time advances, WiFi connects again and again, and the link is up again  *)
(* and again when a cycle is due.                                          *)
(***************************************************************************)
\* wm.autoConnect() returns true.
V6_WifiConnects == V6_StateWifiConnect /\ wifiConnected'

\* STATE_FETCH_ZONES finds the link up and makes the metadata check.
V6_AttemptsCycle == V6_StateFetchZones /\ response'.kind = "metadata"

V6Fairness ==
    /\ WF_vars(V6_Tick)
    /\ WF_vars(V6_StateWifiConnect)
    /\ WF_vars(V6_StateWaitingSetup)
    /\ WF_vars(V6_StatePairing)
    /\ WF_vars(V6_StateFetchZones)
    /\ WF_vars(V6_StateRender)
    /\ WF_vars(V6_StateIdle)
    /\ WF_vars(V6_StateSetupRequired)
    /\ WF_vars(V6_StateError)
    /\ SF_vars(V6_WifiConnects)
    /\ SF_vars(V6_AttemptsCycle)

SpecV6Live == V6Init /\ [][V6Next]_vars /\ V6Fairness

\* C16 (main-v6.cpp), as stated: a pass in STATE_ERROR goes to STATE_WIFI_CONNECT,
\* and from every reachable state the controller is eventually in
\* STATE_FETCH_ZONES again and attempts a cycle (makes the metadata check) again.
C16_ErrorNotTerminal ==
    /\ [][currentState = "STATE_ERROR" /\ currentState' # "STATE_ERROR"
          => currentState' = "STATE_WIFI_CONNECT"]_vars
    /\ []<>(currentState = "STATE_FETCH_ZONES")
    /\ []<>(response.kind = "metadata")

(***************************************************************************)
(* include/base64.hpp and decodeAndDrawZone of variants/main-zones.cpp.    *)
(*                                                                         *)
(* A payload is a NUL-terminated string, kept as a sequence of runs        *)
(* <<class, n>>: n consecutive characters of one class.  The classes are   *)
(* what the decoder distinguishes: "sym" (base64_char_value(c) >= 0),      *)
(* "pad" ('='), "ws" ('\n', '\r', ' ', '\t') and "bad" (any other          *)
(* character).  Of the decoded bytes only their number is kept.            *)
(***************************************************************************)
ZONE_BMP_MAX_SIZE == 20000

\* The largest number of runs in a payload.
MaxRuns == 3

Base64_Classes == {"sym", "pad", "ws", "bad"}

\* The number of symbols decode_base64 needs to write the given number of bytes.
Base64_SymbolsFor(bytes) == (8 * bytes + 5) \div 6

\* Run lengths: up to one group of four, and the symbols of a payload that decodes
\* to one byte more than zoneBmpBuffer holds.
Base64_RunLengths == {1, 2, 3, 4, Base64_SymbolsFor(ZONE_BMP_MAX_SIZE + 1)}

Base64_Payloads ==
    UNION {[1..k -> Base64_Classes \X Base64_RunLengths] : k \in 0..MaxRuns}

\* strlen(base64Data)
RECURSIVE Base64_strlen(_)
Base64_strlen(data) ==
    IF data = <<>> THEN 0 ELSE data[1][2] + Base64_strlen(Tail(data))

\* The class of input[i], i counted from 0 as in the source.
RECURSIVE Base64_At(_, _)
Base64_At(data, i) ==
    IF i < data[1][2] THEN data[1][1] ELSE Base64_At(Tail(data), i - data[1][2])

\* decode_base64_length.  The value is (inputLen * 3) / 4 - padding as an integer:
\* a negative value stands for the size_t the subtraction wraps to (value + 2^32).
decode_base64_length(data) ==
    LET inputLen == Base64_strlen(data)
        padding == (IF inputLen >= 1 /\ Base64_At(data, inputLen - 1) = "pad" THEN 1 ELSE 0)
                   + (IF inputLen >= 2 /\ Base64_At(data, inputLen - 2) = "pad" THEN 1 ELSE 0)
    IN IF inputLen = 0 THEN 0 ELSE (inputLen * 3) \div 4 - padding

\* a > b for a size_t a kept as above and a non-negative b.
SizeGreater(a, b) == a < 0 \/ a > b

\* The loop of decode_base64 over the runs, from the loop state st = [bits, outputLen,
\* stopped].  Whitespace and invalid characters are skipped, '=' ends the loop, and
\* every symbol adds 6 to bits and writes a byte when bits reaches 8: n symbols
\* write (bits + 6n) / 8 bytes and leave (bits + 6n) % 8 bits.
RECURSIVE Base64_DecodeRuns(_, _)
Base64_DecodeRuns(data, st) ==
    IF data = <<>> \/ st.stopped THEN st
    ELSE LET c == data[1][1]
             n == data[1][2]
             next == IF c = "pad" THEN [st EXCEPT !.stopped = TRUE]
                     ELSE IF c = "sym"
                     THEN [st EXCEPT !.bits = (st.bits + 6 * n) % 8,
                                     !.outputLen = st.outputLen + (st.bits + 6 * n) \div 8]
                     ELSE st
         IN Base64_DecodeRuns(Tail(data), next)

\* decode_base64: the number of bytes written to output (outputLen).
decode_base64(data) ==
    Base64_DecodeRuns(data, [bits |-> 0, outputLen |-> 0, stopped |-> FALSE]).outputLen

\* The variables of the refresh controller, which a single call does not touch.
callVars == <<currentState, serverUrl, wifiConnected, initialDrawDone, setupRequired,
              sinceRefresh, sinceFullRefresh, partialRefreshCount, partialCount,
              consecutiveErrors, sinceError, zoneChanged, pairingMode,
              sincePairingStart, pairingScreenShown, sincePoll, waitingScreenShown,
              wifiSSID, wifiPassword, bleCredentialsReceived, bleInitialized,
              blePc, bleWritten,
              devicePaired, sinceTier1Refresh, sinceTier2Refresh, sinceTier3Refresh,
              failed, reportedChanged, cycle, backoffWait>>

\* The controller at rest, in the given state, while one call is studied.
CallSetup(state) ==
    /\ currentState = state
    /\ serverUrl = DEFAULT_SERVER_URL
    /\ wifiConnected = TRUE
    /\ initialDrawDone = FALSE
    /\ setupRequired = FALSE
    /\ sinceRefresh = 0 /\ sinceFullRefresh = 0
    /\ partialRefreshCount = 0 /\ partialCount = 0
    /\ consecutiveErrors = 0 /\ sinceError = 0
    /\ zoneChanged = <<>>
    /\ pairingMode = FALSE /\ sincePairingStart = 0
    /\ pairingScreenShown = FALSE /\ sincePoll = 0
    /\ waitingScreenShown = FALSE
    /\ wifiSSID = "" /\ wifiPassword = ""
    /\ bleCredentialsReceived = FALSE /\ bleInitialized = FALSE
    /\ NotTiered
    /\ NoBleTask
    /\ requests = <<>> /\ failed = {} /\ reportedChanged = {}
    /\ cycle = NoCycle
    /\ backoffWait = 0

NullPayload == [kind |-> "nullptr"]

\* main-zones.cpp about to call decodeAndDrawZone(zone, base64Data): base64Data is
\* null or points to a payload; header tells whether the decoded bytes start with
\* 'B','M', loads whether bbep.loadBMP returns BBEP_SUCCESS.
ZonesInit ==
    /\ firmware = "zones"
    /\ CallSetup("loop")
    /\ zoneBuffer \in {"allocated", "nullptr"}
    /\ \/ response = NullPayload
       \/ \E data \in Base64_Payloads, header \in BOOLEAN, loads \in BOOLEAN :
            response = [kind |-> "payload", data |-> data, header |-> header,
                        loads |-> header /\ loads]
    /\ ops = <<>>
    /\ result = NoResult

\* decodeAndDrawZone: what it returns (ok), whether it called decode_base64, the
\* number of bytes that call wrote from zoneBmpBuffer[0] on, and its display
\* operations.  A write past zoneBmpBuffer[ZONE_BMP_MAX_SIZE - 1] is undefined
\* behaviour: header and loads then stand for whatever the build does after it.
decodeAndDrawZone(buffer, payload) ==
    IF payload.kind = "nullptr" \/ buffer = "nullptr"
    THEN [kind |-> "decodeAndDrawZone", ok |-> FALSE, decodeCalled |-> FALSE,
          written |-> 0, ops |-> <<>>]
    ELSE IF SizeGreater(decode_base64_length(payload.data), ZONE_BMP_MAX_SIZE)
    THEN [kind |-> "decodeAndDrawZone", ok |-> FALSE, decodeCalled |-> FALSE,
          written |-> 0, ops |-> <<>>]
    ELSE [kind |-> "decodeAndDrawZone", ok |-> payload.loads, decodeCalled |-> TRUE,
          written |-> decode_base64(payload.data),
          ops |-> IF payload.header THEN <<LoadBMP(1)>> ELSE <<>>]

\* The call decodeAndDrawZone(zones[i], zones[i].bmpData).
Zones_decodeAndDrawZone ==
    /\ firmware = "zones" /\ result = NoResult
    /\ result' = decodeAndDrawZone(zoneBuffer, response)
    /\ ops' = result'.ops
    /\ UNCHANGED <<firmware, zoneBuffer, response, requests>>
    /\ UNCHANGED callVars

\* decode_base64_length and decode_base64 applied to the same input.
Base64_Decode ==
    /\ firmware = "zones" /\ result = NoResult
    /\ response.kind = "payload"
    /\ result' = [kind |-> "base64",
                  decodedLen |-> decode_base64_length(response.data),
                  outputLen |-> decode_base64(response.data)]
    /\ UNCHANGED <<firmware, zoneBuffer, response, ops, requests>>
    /\ UNCHANGED callVars

ZonesNext == Zones_decodeAndDrawZone \/ Base64_Decode

SpecZones == ZonesInit /\ [][ZonesNext]_vars

\* The payload without its whitespace.
Base64_NoWhitespace(data) == SelectSeq(data, LAMBDA r : r[1] # "ws")

\* The number of characters of a class in the payload.
RECURSIVE Base64_Count(_, _)
Base64_Count(data, c) ==
    IF data = <<>> THEN 0
    ELSE (IF data[1][1] = c THEN data[1][2] ELSE 0) + Base64_Count(Tail(data), c)

\* Well-formed base64: at least one group of four alphabet symbols, the last group
\* ending in 0, 1 or 2 '=', with whitespace anywhere between the characters.
Base64_WellFormed(data) ==
    LET d == Base64_NoWhitespace(data)
        syms == Base64_Count(d, "sym")
        pads == Base64_Count(d, "pad")
    IN /\ Base64_Count(d, "bad") = 0
       /\ pads <= 2
       /\ (syms + pads) % 4 = 0
       /\ syms > 0
       /\ \A i \in 1..Len(d) : d[i][1] = "pad" => \A j \in i..Len(d) : d[j][1] = "pad"

\* C18 (base64.hpp), as stated: for every well-formed base64 input, with or
\* without whitespace between its characters, decode_base64_length returns the
\* number of bytes decode_base64 writes.
C18_LengthMatchesDecode ==
    (firmware = "zones" /\ result.kind = "base64" /\ Base64_WellFormed(response.data))
        => result.decodedLen = result.outputLen

\* C19 (main-zones.cpp), as stated: for every payload string for which
\* decode_base64 would write more than ZONE_BMP_MAX_SIZE bytes, decodeAndDrawZone
\* returns false without calling decode_base64, and nothing is written to
\* zoneBmpBuffer.
C19_OversizeRejectedBeforeDecode ==
    (/\ firmware = "zones" /\ result.kind = "decodeAndDrawZone"
     /\ response.kind = "payload"
     /\ decode_base64(response.data) > ZONE_BMP_MAX_SIZE)
        => (~result.ok /\ ~result.decodeCalled /\ result.written = 0)

(***************************************************************************)
(* One call of fetchAndDrawZone of main-v7.cpp, for every answer of        *)
(* GET api/zone/<id>.                                                      *)
(***************************************************************************)
V7_HttpCodes == {200, 404, 500}
V7_ContentLengths == {0, 30, V7_BMP_HEADER_SIZE - 1, V7_BMP_HEADER_SIZE, 9462,
                      V7_ZONE_BUFFER_SIZE, V7_ZONE_BUFFER_SIZE + 1}
V7_Depths == {0, 1, 4, 8, 24}

\* The answers: the read loop gets the whole body or stops early.
V7_CallAnswers ==
    {V7_ZoneAnswer(b, c, len, rd, sg, bpp) :
        b \in BOOLEAN, c \in V7_HttpCodes, len \in V7_ContentLengths,
        rd \in V7_ContentLengths \cup {4096}, sg \in BOOLEAN, bpp \in V7_Depths}

\* main-v7.cpp in the zone loop of STATE_FETCH_ZONES, about to call
\* fetchAndDrawZone(ZONES[0], !needsFull).
V7FetchInit ==
    /\ firmware = "v7"
    /\ CallSetup("STATE_FETCH_ZONES")
    /\ zoneBuffer \in {"allocated", "nullptr"}
    /\ \E a \in V7_CallAnswers :
         /\ a.bytesRead <= (IF a.contentLen > 0 THEN a.contentLen ELSE 0)
         /\ response = [kind |-> "zone", answer |-> a]
    /\ ops = <<>>
    /\ result = NoResult

\* fetchAndDrawZone from its first line: if (!zoneBuffer) return false;
V7_fetchAndDrawZoneCall(buffer, partial, resp) ==
    IF buffer = "nullptr"
    THEN [ok |-> FALSE, ops |-> <<>>, reads |-> <<>>, requests |-> <<>>]
    ELSE LET r == V7_fetchAndDrawZone(partial, resp)
         IN [ok |-> r.ok, ops |-> TagZone(r.ops, 1), reads |-> r.reads,
             requests |-> IF resp.begin THEN <<ZoneRequest(1)>> ELSE <<>>]

\* The call fetchAndDrawZone(ZONES[0], partial).
V7_CallFetchAndDrawZone ==
    /\ firmware = "v7" /\ result = NoResult /\ response.kind = "zone"
    /\ \E partial \in BOOLEAN :
         LET r == V7_fetchAndDrawZoneCall(zoneBuffer, partial, response.answer)
         IN /\ result' = [kind |-> "fetchAndDrawZone", ok |-> r.ok, reads |-> r.reads]
            /\ ops' = r.ops
            /\ requests' = r.requests
    /\ UNCHANGED <<firmware, zoneBuffer, response>>
    /\ UNCHANGED callVars

V7FetchNext == V7_CallFetchAndDrawZone

SpecV7Fetch == V7FetchInit /\ [][V7FetchNext]_vars

\* The call received a complete payload: the request succeeded and the read loop
\* filled zoneBuffer with contentLength bytes.
V7_PayloadReceived ==
    /\ firmware = "v7" /\ result.kind = "fetchAndDrawZone"
    /\ zoneBuffer = "allocated"
    /\ response.answer.begin /\ response.answer.httpCode = 200
    /\ response.answer.contentLen > 0
    /\ response.answer.contentLen <= V7_ZONE_BUFFER_SIZE
    /\ response.answer.bytesRead = response.answer.contentLen

\* C20 (main-v7.cpp): a payload that does not start with 'B','M', is shorter than
\* the 54-byte header or whose bits-per-pixel field is not 1 is rejected:
\* fetchAndDrawZone returns false and draws no pixel; the signature is the first
\* field read, and no other field is read when it does not match or the payload
\* is too short to hold the header.
C20_BadBmpRejected ==
    V7_PayloadReceived =>
        /\ (\/ ~response.answer.sig
            \/ response.answer.bytesRead < V7_BMP_HEADER_SIZE
            \/ response.answer.bitsPerPixel # 1)
               => (~result.ok /\ ~HasOp("drawPixel"))
        /\ result.reads # <<>> => result.reads[1] = "magic"
        /\ response.answer.bytesRead < V7_BMP_HEADER_SIZE => result.reads = <<>>
        /\ (response.answer.bytesRead >= V7_BMP_HEADER_SIZE /\ ~response.answer.sig)
               => result.reads = <<"magic">>

\* C20: a complete payload with the signature and a 24-bit depth was rejected after
\* its header fields were read.
C20_Witness ==
    /\ V7_PayloadReceived
    /\ response.answer.sig /\ response.answer.bitsPerPixel = 24
    /\ response.answer.bytesRead >= V7_BMP_HEADER_SIZE
    /\ ~result.ok /\ ops = <<>>
    /\ result.reads = <<"magic">> \o V7_HeaderFields

\* C26 (main-v6.cpp), as stated: in a cycle with needsFull false, a zone whose
\* update failed has had no display operation: no fill and no refresh was issued
\* for it, so the panel still shows its previous content.
C26_FailedZoneLeftUnchanged ==
    (firmware = "v6" /\ cycle.active /\ ~cycle.needsFull)
        => \A i \in failed : OpsOfZone(i) = <<>>

\* Display operation k of the last pass is of the given kind, for zone i.
OpAt(k, kind, i) == k \in 1..Len(ops) /\ ops[k] = <<kind, i>>

\* C27 (main-v7.cpp), as stated: in a cycle with needsFull false, the drawing of
\* every drawn zone is preceded by a black fill of the zone and a partial refresh,
\* and followed by a partial refresh.
C27_FlashBeforeDraw ==
    (firmware = "v7" /\ cycle.active /\ ~cycle.needsFull)
        => \A i \in 1..V7_ZONE_COUNT : \A c \in 1..Len(ops) :
              OpAt(c, "drawPixel", i)
                  => \E a, b, d \in 1..Len(ops) :
                        /\ a < b /\ b < c /\ c < d
                        /\ OpAt(a, "fillRect_BLACK", i)
                        /\ OpAt(b, "refresh_PARTIAL", i)
                        /\ OpAt(d, "refresh_PARTIAL", i)

\* C30 (main-v6.cpp): a successful wm.autoConnect() leaves initialDrawDone false;
\* a cycle that starts with initialDrawDone false has needsFull true, requests
\* every zone and issues no partial refresh; and initialDrawDone becomes true only
\* in a pass that issued the full refresh.  So the first cycle after WiFi was
\* re-established is a full one, and no zone is refreshed on its own before a full
\* refresh has completed.
C30_FullCycleAfterReconnect ==
    /\ [][V6_WifiConnects => ~initialDrawDone']_vars
    /\ []((firmware = "v6" /\ cycle.active /\ cycle.firstDraw)
              => /\ cycle.needsFull
                 /\ \A i \in 1..V6_ZONE_COUNT : Requested(i)
                 /\ ~HasOp("refresh_PARTIAL"))
    /\ [][(firmware = "v6" /\ ~initialDrawDone /\ initialDrawDone')
              => (cycle'.active /\ ops'[Len(ops')] = RefreshFull)]_vars

\* C30: a full cycle that started with initialDrawDone false although partial
\* cycles had run before it (WiFi was re-established in between), and that drew
\* every zone and ended with the full refresh.
C30_Witness ==
    /\ firmware = "v6"
    /\ cycle.active /\ cycle.firstDraw /\ cycle.needsFull
    /\ cycle.startCount > 0 /\ cycle.startCount < V6_MAX_PARTIAL_BEFORE_FULL
    /\ cycle.drawn = V6_ZONE_COUNT
    /\ HasOp("refresh_FULL")
    /\ initialDrawDone

(***************************************************************************)
(* One call of fetchAndDrawZone of main-v6.cpp, with the position headers  *)
(* of the answer.                                                          *)
(***************************************************************************)
V6_SCREEN_W == 800
V6_SCREEN_H == 480

\* static const ZoneDef ZONES[]
V6_ZONES ==
    << [id |-> "header",  x |-> 0, y |-> 0,   w |-> 800, h |-> 94],
       [id |-> "divider", x |-> 0, y |-> 94,  w |-> 800, h |-> 2],
       [id |-> "summary", x |-> 0, y |-> 96,  w |-> 800, h |-> 28],
       [id |-> "legs",    x |-> 0, y |-> 132, w |-> 800, h |-> 316],
       [id |-> "footer",  x |-> 0, y |-> 448, w |-> 800, h |-> 32] >>

\* What String::toInt() gives for a position header: 0 (also for a value that is
\* not a number), a value inside the zones, and one beyond the panel.
V6_HeaderInts == {0, 100, 900}

\* A header of the answer: <<>> when http.hasHeader() is false, <<v>> when it is
\* present and toInt() gives v.
V6_HeaderOptions == {<<>>} \cup {<<v>> : v \in V6_HeaderInts}

\* http.hasHeader(name) ? http.header(name).toInt() : fallback
V6_HeaderOr(header, fallback) == IF header = <<>> THEN fallback ELSE header[1]

\* int zX, zY, zW, zH: the zone position taken from the headers, with the entry
\* of ZONES[] as fallback.
V6_ZoneRect(zone, headers) ==
    [x |-> V6_HeaderOr(headers.x, zone.x), y |-> V6_HeaderOr(headers.y, zone.y),
     w |-> V6_HeaderOr(headers.w, zone.w), h |-> V6_HeaderOr(headers.h, zone.h)]

\* main-v6.cpp in the zone loop of STATE_RENDER, about to call
\* fetchAndDrawZone(ZONES[i], flash).
V6FetchInit ==
    /\ firmware = "v6"
    /\ CallSetup("STATE_RENDER")
    /\ zoneBuffer = "allocated"
    /\ \E i \in 1..V6_ZONE_COUNT, flash \in BOOLEAN, a \in V6_ZoneResponses,
          hx \in V6_HeaderOptions, hy \in V6_HeaderOptions,
          hw \in V6_HeaderOptions, hh \in V6_HeaderOptions :
         response = [kind |-> "zone", zone |-> i, flash |-> flash, answer |-> a,
                     headers |-> [x |-> hx, y |-> hy, w |-> hw, h |-> hh]]
    /\ ops = <<>>
    /\ result = NoResult

\* The call fetchAndDrawZone(ZONES[i], flash): what it returns, its display
\* operations, and the rectangle bbep.fillRect() and bbep.loadBMP() are given.
V6_CallFetchAndDrawZone ==
    /\ firmware = "v6" /\ result = NoResult /\ response.kind = "zone"
    /\ LET r == V6_fetchAndDrawZone(response.flash, response.answer)
       IN /\ result' = [kind |-> "fetchAndDrawZone", ok |-> r.ok,
                        rect |-> V6_ZoneRect(V6_ZONES[response.zone], response.headers)]
          /\ ops' = TagZone(r.ops, response.zone)
          /\ requests' = IF response.answer.begin
                         THEN <<ZoneRequest(response.zone)>> ELSE <<>>
    /\ UNCHANGED <<firmware, zoneBuffer, response>>
    /\ UNCHANGED callVars

V6FetchNext == V6_CallFetchAndDrawZone

SpecV6Fetch == V6FetchInit /\ [][V6FetchNext]_vars

\* Rectangle r lies inside the rectangle at (x, y) of size w by h.
RectInside(r, x, y, w, h) ==
    /\ r.w >= 0 /\ r.h >= 0
    /\ x <= r.x /\ r.x + r.w <= x + w
    /\ y <= r.y /\ r.y + r.h <= y + h

\* C25 (main-v6.cpp), as stated: the rectangle fetchAndDrawZone flashes and draws
\* at lies inside the bounding box ZONES[] declares for the zone, and inside the
\* panel, whatever the position headers of the answer are.
C25_OverrideInsideZone ==
    (firmware = "v6" /\ result.kind = "fetchAndDrawZone" /\ ops # <<>>)
        => LET zone == V6_ZONES[response.zone]
           IN /\ RectInside(result.rect, zone.x, zone.y, zone.w, zone.h)
              /\ RectInside(result.rect, 0, 0, V6_SCREEN_W, V6_SCREEN_H)

(***************************************************************************)
(* The pixel loop of fetchAndDrawZone of main-v7.cpp (from "Get pixel data *)
(* offset" on), for one received payload.  A drawPixel call is recorded    *)
(* with the panel position, the byte of zoneBuffer and the bit it read,    *)
(* and the colour.                                                         *)
(***************************************************************************)
INT32_MIN == -2147483647 - 1

\* a / b of C for b > 0: the quotient is truncated toward zero.
CDiv(a, b) == IF a >= 0 THEN a \div b ELSE -((-a) \div b)

\* The zones of the calls: ZONES[1] ("summary"), and a zone of a few pixels in its
\* place, so that payloads larger than the zone stay small.
V7_DrawZones ==
    { [id |-> "summary", x |-> 0, y |-> 96, w |-> 800, h |-> 28],
      [id |-> "small", x |-> 2, y |-> 4, w |-> 34, h |-> 2] }

\* The bit the loop finds at a bit position of a byte of memory, for the contents
\* the memory can have.
V7_BufferBit(pattern, byte, bit) ==
    IF pattern = "zeros" THEN 0
    ELSE IF pattern = "ones" THEN 1
    ELSE (byte + bit) % 2

\* if (bmpHeight < 0) bmpHeight = -bmpHeight;  The negation of INT32_MIN overflows
\* (undefined behaviour): wrapped is the outcome the build produced, INT32_MIN
\* again or the largest int.
V7_AbsHeight(bmpHeight, wrapped) ==
    IF bmpHeight = INT32_MIN THEN wrapped
    ELSE IF bmpHeight < 0 THEN -bmpHeight ELSE bmpHeight

\* Variant of the loop bound that ignores the zone.
V7_LoopCount_Unclipped(declared, limit) == IF declared > 0 THEN declared ELSE 0

\* The number of passes of for (i = 0; i < declared && i < limit; i++).
V7_LoopCount(declared, limit) ==
    IF declared <= 0 \/ limit <= 0 THEN 0 ELSE Min(declared, limit)

\* Variant of the source row that reads every bitmap top-down.
V7_SrcRow_TopDown(bottomUp, bmpHeight, row) == row

\* int srcRow = bottomUp ? (bmpHeight - 1 - row) : row;
V7_SrcRow(bottomUp, bmpHeight, row) == IF bottomUp THEN bmpHeight - 1 - row ELSE row

\* The drawPixel calls of the two loops, in order, for the zone and the header
\* fields read from zoneBuffer.
V7_DrawBmp(zone, bmp, wrapped) ==
    LET bottomUp == bmp.bmpHeight > 0
        bmpHeight == V7_AbsHeight(bmp.bmpHeight, wrapped)
        rowBytes == CDiv(bmp.bmpWidth + 31, 32) * 4
        rows == V7_LoopCount(bmpHeight, zone.h)
        cols == V7_LoopCount(bmp.bmpWidth, zone.w)
    IN [n \in 1..(rows * cols) |->
          LET row == (n - 1) \div cols
              col == (n - 1) % cols
              byte == bmp.pixelOffset + V7_SrcRow(bottomUp, bmpHeight, row) * rowBytes
                      + col \div 8
              bit == 7 - (col % 8)
          IN [px |-> zone.x + col, py |-> zone.y + row, byte |-> byte, bit |-> bit,
              colour |-> IF V7_BufferBit(bmp.pattern, byte, bit) = 0
                         THEN "BBEP_BLACK" ELSE "BBEP_WHITE"]]

\* main-v7.cpp in fetchAndDrawZone(zone, partial) after the body was read completely
\* into zoneBuffer: the payload has the signature, and its header fields and the
\* memory contents are any of the following.
V7DrawInit ==
    /\ firmware = "v7"
    /\ CallSetup("STATE_FETCH_ZONES")
    /\ zoneBuffer = "allocated"
    /\ \E zone \in V7_DrawZones, w \in {-1, 0, 1, 9, 33, 40},
          h \in {INT32_MIN, -3, -2, 0, 1, 2, 3}, off \in {62, 44990},
          bpp \in {1, 24}, pattern \in {"zeros", "ones", "stripes"},
          wrapped \in {INT32_MIN, 2147483647} :
         /\ (h # INT32_MIN => wrapped = INT32_MIN)
         /\ response = [kind |-> "bmp", zone |-> zone, wrapped |-> wrapped,
                        bmp |-> [bytesRead |-> 9462, sig |-> TRUE, bitsPerPixel |-> bpp,
                                 pixelOffset |-> off, bmpWidth |-> w, bmpHeight |-> h,
                                 pattern |-> pattern]]
    /\ ops = <<>>
    /\ result = NoResult

\* fetchAndDrawZone from "Parse BMP header" to its return.
V7_CallDraw ==
    /\ firmware = "v7" /\ result = NoResult /\ response.kind = "bmp"
    /\ LET header == V7_ParseBmp(response.bmp)
           draws == IF header.ok
                    THEN V7_DrawBmp(response.zone, response.bmp, response.wrapped)
                    ELSE <<>>
       IN /\ result' = [kind |-> "draw", ok |-> header.ok, draws |-> draws]
          /\ ops' = IF draws # <<>> THEN <<<<"drawPixel", 1>>>> ELSE <<>>
    /\ UNCHANGED <<firmware, zoneBuffer, response, requests>>
    /\ UNCHANGED callVars

SpecV7Draw == V7DrawInit /\ [][V7_CallDraw]_vars

\* The call under study drew the received 1-bit BMP.
V7_Drew == firmware = "v7" /\ result.kind = "draw" /\ response.bmp.bitsPerPixel = 1

\* C21 (main-v7.cpp): every drawPixel(px, py) of a call lies in the zone's
\* rectangle, and the pixels drawn are min(declared, zone) columns of
\* min(declared, zone) rows, for every declared width and height.
C21_DrawInsideZone ==
    V7_Drew =>
        LET zone == response.zone
            bmpHeight == V7_AbsHeight(response.bmp.bmpHeight, response.wrapped)
            rows == IF bmpHeight <= 0 THEN 0 ELSE Min(bmpHeight, zone.h)
            cols == IF response.bmp.bmpWidth <= 0 THEN 0
                    ELSE Min(response.bmp.bmpWidth, zone.w)
        IN /\ \A n \in 1..Len(result.draws) :
                /\ zone.x <= result.draws[n].px
                /\ result.draws[n].px < zone.x + zone.w
                /\ zone.y <= result.draws[n].py
                /\ result.draws[n].py < zone.y + zone.h
           /\ {<<result.draws[n].px, result.draws[n].py>> : n \in 1..Len(result.draws)}
                  = {<<zone.x + c, zone.y + r>> : c \in 0..(cols - 1), r \in 0..(rows - 1)}

\* C21: a payload wider and higher than its zone was drawn, as many pixels as the
\* zone has.
C21_Witness ==
    /\ V7_Drew
    /\ response.bmp.bmpWidth > response.zone.w
    /\ response.bmp.bmpHeight > response.zone.h
    /\ Len(result.draws) = response.zone.w * response.zone.h

\* C22 (main-v7.cpp), as stated: a BMP whose declared width or height exceeds the
\* zone's is rejected: the call returns false and draws nothing.
C22_OversizeRejected ==
    (/\ V7_Drew
     /\ \/ response.bmp.bmpWidth > response.zone.w
        \/ response.bmp.bmpHeight > response.zone.h
        \/ response.bmp.bmpHeight < -response.zone.h)
        => (~result.ok /\ result.draws = <<>>)

\* C23 (main-v7.cpp), as stated: a BMP whose height field is 0 is a format error:
\* the call returns false.
C23_ZeroHeightRejected ==
    (V7_Drew /\ response.bmp.bmpHeight = 0) => ~result.ok

\* C24 (main-v7.cpp): for a 1-bit BMP of width W and height field H # 0, the pixel
\* at zone-relative (col, row) is read from source row |H| - 1 - row when H > 0 and
\* from source row `row` when H < 0, at byte pixelOffset + srcRow * stride + col / 8,
\* bit 7 - (col mod 8), with stride ((W + 31) / 32) * 4; a 0 bit is drawn black and
\* a 1 bit white.
C24_PixelSource ==
    (V7_Drew /\ response.bmp.bmpHeight # 0)
        => LET W == response.bmp.bmpWidth
               H == response.bmp.bmpHeight
               stride == ((W + 31) \div 32) * 4
           IN \A n \in 1..Len(result.draws) :
                 LET d == result.draws[n]
                     col == d.px - response.zone.x
                     row == d.py - response.zone.y
                     srcRow == IF H > 0 THEN H - 1 - row ELSE row
                 IN /\ d.byte = response.bmp.pixelOffset + srcRow * stride + col \div 8
                    /\ d.bit = 7 - (col % 8)
                    /\ d.colour = IF V7_BufferBit(response.bmp.pattern, d.byte, d.bit) = 0
                                  THEN "BBEP_BLACK" ELSE "BBEP_WHITE"

\* C24: a bottom-up BMP of three rows and two 32-bit words a row was drawn into the
\* small zone; the pixel at the zone's origin came from the last source row.
C24_Witness ==
    /\ V7_Drew
    /\ response.bmp.bmpHeight = 3 /\ response.bmp.bmpWidth = 33
    /\ response.zone.id = "small"
    /\ response.bmp.pattern = "stripes"
    /\ Len(result.draws) = 66
    /\ result.draws[1].byte = response.bmp.pixelOffset + 16
    /\ result.draws[66].byte = response.bmp.pixelOffset + 8 + 4

(***************************************************************************)
(* decode_base64 of include/base64.hpp with the bytes it writes.  The      *)
(* input is a sequence of character codes; the uint32_t buffer is kept as  *)
(* its two 16-bit halves [hi, lo].                                         *)
(***************************************************************************)
\* The largest input length.
MaxChars == 6

\* static inline int base64_char_value(char c)
base64_char_value(c) ==
    IF c >= 65 /\ c <= 90 THEN c - 65
    ELSE IF c >= 97 /\ c <= 122 THEN c - 97 + 26
    ELSE IF c >= 48 /\ c <= 57 THEN c - 48 + 52
    ELSE IF c = 43 THEN 62
    ELSE IF c = 47 THEN 63
    ELSE -1

\* Variant of the loop body that goes on after '='.
Base64_Char_IgnoresPadding(c, st) ==
    IF c \in {10, 13, 32, 9, 61} THEN st
    ELSE LET value == base64_char_value(c)
         IN IF value < 0 THEN st
            ELSE LET lo == (st.lo * 64 + value) % 65536
                     hi == (st.hi * 64 + (st.lo * 64) \div 65536) % 65536
                     bits == st.bits + 6
                 IN IF bits >= 8
                    THEN [st EXCEPT !.hi = hi, !.lo = lo, !.bits = bits - 8,
                                    !.output = Append(@, (lo \div Pow2(bits - 8)) % 256)]
                    ELSE [st EXCEPT !.hi = hi, !.lo = lo, !.bits = bits]

\* The body of the for loop of decode_base64 for the character c, from the loop
\* state st = [hi, lo, bits, output, stopped]; stopped: the loop met '=' (break).
Base64_Char(c, st) ==
    IF c \in {10, 13, 32, 9} THEN st
    ELSE IF c = 61 THEN [st EXCEPT !.stopped = TRUE]
    ELSE LET value == base64_char_value(c)
         IN IF value < 0 THEN st
            ELSE LET lo == (st.lo * 64 + value) % 65536
                     hi == (st.hi * 64 + (st.lo * 64) \div 65536) % 65536
                     bits == st.bits + 6
                 IN IF bits >= 8
                    THEN [st EXCEPT !.hi = hi, !.lo = lo, !.bits = bits - 8,
                                    !.output = Append(@, (lo \div Pow2(bits - 8)) % 256)]
                    ELSE [st EXCEPT !.hi = hi, !.lo = lo, !.bits = bits]

\* for (size_t i = 0; i < inputLen; i++) ...
RECURSIVE Base64_Loop(_, _)
Base64_Loop(input, st) ==
    IF input = <<>> \/ st.stopped THEN st
    ELSE Base64_Loop(Tail(input), Base64_Char(Head(input), st))

\* decode_base64(input, inputLen, output): the bytes written to output.
decode_base64_bytes(input) ==
    Base64_Loop(input, [hi |-> 0, lo |-> 0, bits |-> 0, output |-> <<>>,
                        stopped |-> FALSE]).output

\* The inputs: strings over 'V', 'z', '/', '=', '\n' and '*'.
Base64Init ==
    /\ firmware = "base64"
    /\ CallSetup("loop")
    /\ zoneBuffer = "allocated"
    /\ \E n \in 0..MaxChars : \E input \in [1..n -> {86, 122, 47, 61, 10, 42}] :
         response = [kind |-> "text", input |-> input]
    /\ ops = <<>>
    /\ result = NoResult

\* The call decode_base64(input, strlen(input), output).
Base64_CallDecode ==
    /\ firmware = "base64" /\ result = NoResult
    /\ result' = [kind |-> "decode_base64",
                  output |-> decode_base64_bytes(response.input)]
    /\ UNCHANGED <<firmware, zoneBuffer, response, ops, requests>>
    /\ UNCHANGED callVars

SpecBase64 == Base64Init /\ [][Base64_CallDecode]_vars

\* The input up to its first '=' (all of it when it has none).
RECURSIVE Base64_BeforePadding(_)
Base64_BeforePadding(input) ==
    IF input = <<>> \/ Head(input) = 61 THEN <<>>
    ELSE <<Head(input)>> \o Base64_BeforePadding(Tail(input))

\* Position of an alphabet symbol in "ABC...XYZabc...xyz0123456789+/", from 0.
Base64_AlphabetIndex(c) ==
    LET alphabet == <<65, 66, 67, 68, 69, 70, 71, 72, 73, 74, 75, 76, 77, 78, 79, 80,
                      81, 82, 83, 84, 85, 86, 87, 88, 89, 90,
                      97, 98, 99, 100, 101, 102, 103, 104, 105, 106, 107, 108, 109,
                      110, 111, 112, 113, 114, 115, 116, 117, 118, 119, 120, 121, 122,
                      48, 49, 50, 51, 52, 53, 54, 55, 56, 57, 43, 47>>
    IN (CHOOSE k \in 1..64 : alphabet[k] = c) - 1

\* The alphabet symbols of the input before its first '=', as their 6-bit values.
Base64_Symbols(input) ==
    LET isSymbol(c) == \/ (c >= 65 /\ c <= 90) \/ (c >= 97 /\ c <= 122)
                       \/ (c >= 48 /\ c <= 57) \/ c = 43 \/ c = 47
        syms == SelectSeq(Base64_BeforePadding(input), isSymbol)
    IN [k \in 1..Len(syms) |-> Base64_AlphabetIndex(syms[k])]

\* Bit n (from 1, most significant bit of the first symbol first) of the
\* concatenated 6-bit values.
Base64_Bit(values, n) ==
    (values[(n - 1) \div 6 + 1] \div Pow2(5 - ((n - 1) % 6))) % 2

\* C29 (base64.hpp): decode_base64 writes floor(6 * k / 8) bytes, k being the
\* number of alphabet symbols before the first '=' (or the end) of the input, and
\* byte j is bits 8j - 7 .. 8j of the concatenated 6-bit values of these symbols,
\* most significant bit first; other characters contribute nothing.
C29_DecodedBytes ==
    (firmware = "base64" /\ result.kind = "decode_base64")
        => LET values == Base64_Symbols(response.input)
           IN /\ Len(result.output) = (6 * Len(values)) \div 8
              /\ \A j \in 1..Len(result.output) :
                    result.output[j] =
                        Base64_Bit(values, 8 * j - 7) * 128
                        + Base64_Bit(values, 8 * j - 6) * 64
                        + Base64_Bit(values, 8 * j - 5) * 32
                        + Base64_Bit(values, 8 * j - 4) * 16
                        + Base64_Bit(values, 8 * j - 3) * 8
                        + Base64_Bit(values, 8 * j - 2) * 4
                        + Base64_Bit(values, 8 * j - 1) * 2
                        + Base64_Bit(values, 8 * j)

\* C29: the input 'V' 'z' '\n' '/' 'z' '=', four symbols around a line break and
\* then '=', was decoded to the three bytes 0x57 0x3F 0xF3.
C29_Witness ==
    /\ firmware = "base64" /\ result.kind = "decode_base64"
    /\ response.input = <<86, 122, 10, 47, 122, 61>>
    /\ result.output = <<87, 63, 243>>

(***************************************************************************)
(* main-tiered.cpp: loop().  One action per path through a pass: step 1    *)
(* (WiFi), step 2 (pairing) and step 3 (the backoff gate, the full refresh *)
(* and the three tiers).  requests holds one record per fetchAllZones or   *)
(* fetchZonesForTier call of the pass, with what the backoff test of lines *)
(* 190-196 would have answered at the moment of the call.                  *)
(***************************************************************************)
TIER1_INTERVAL == 60000
TIER2_INTERVAL == 120000
TIER3_INTERVAL == 300000
TIERED_FULL_REFRESH_INTERVAL == 600000
TIERED_MAX_PARTIAL_BEFORE_FULL == 30
TIERED_PAIRING_POLL_INTERVAL == 5000
TIERED_PAIRING_TIMEOUT == 600000

\* pairingStartTime is compared with >: the difference stops one past the timeout.
TIERED_PairingStartCap == TIERED_PAIRING_TIMEOUT + 1

\* The time between two passes.
TieredTimeSteps == {TIER1_INTERVAL, TIER3_INTERVAL}

\* setup(): loadSettings() sets devicePaired from the stored webhook URL; every time
\* stamp is 0 and millis() is small.
TieredInit ==
    /\ firmware = "tiered"
    /\ currentState = "none"
    /\ serverUrl = DEFAULT_SERVER_URL
    /\ wifiConnected = FALSE
    /\ devicePaired \in BOOLEAN
    /\ initialDrawDone = FALSE
    /\ setupRequired = FALSE
    /\ sinceRefresh = 0
    /\ sinceFullRefresh = 0
    /\ sinceTier1Refresh = 0 /\ sinceTier2Refresh = 0 /\ sinceTier3Refresh = 0
    /\ partialRefreshCount = 0
    /\ partialCount = 0
    /\ consecutiveErrors = 0
    /\ sinceError = 0
    /\ zoneChanged = <<>>
    /\ pairingMode = FALSE
    /\ sincePairingStart = TIERED_PairingStartCap
    /\ pairingScreenShown = FALSE
    /\ sincePoll = TIERED_PAIRING_POLL_INTERVAL
    /\ waitingScreenShown = FALSE
    /\ wifiSSID = "" /\ wifiPassword = ""
    /\ bleCredentialsReceived = FALSE /\ bleInitialized = FALSE
    /\ NoBleTask
    /\ ops = <<>>
    /\ requests = <<>>
    /\ failed = {}
    /\ reportedChanged = {}
    /\ cycle = NoCycle
    /\ zoneBuffer = "allocated"
    /\ response = NoResponse
    /\ result = NoResult
    /\ backoffWait = 0

\* What no pass of main-tiered.cpp touches.
tieredFixed == <<firmware, currentState, serverUrl, setupRequired, sinceRefresh,
                 partialCount, zoneChanged, pairingMode, waitingScreenShown, wifiSSID,
                 wifiPassword, bleCredentialsReceived, bleInitialized, blePc,
                 bleWritten, failed,
                 reportedChanged, cycle, zoneBuffer, response, result, backoffWait>>

\* Time passes between two passes of loop() (the delay() calls, the blocking fetches
\* and panel refreshes).
TIERED_Tick ==
    /\ firmware = "tiered"
    /\ \E e \in TieredTimeSteps :
         /\ sinceFullRefresh' = Min(sinceFullRefresh + e, TIERED_FULL_REFRESH_INTERVAL)
         /\ sinceTier1Refresh' = Min(sinceTier1Refresh + e, TIER1_INTERVAL)
         /\ sinceTier2Refresh' = Min(sinceTier2Refresh + e, TIER2_INTERVAL)
         /\ sinceTier3Refresh' = Min(sinceTier3Refresh + e, TIER3_INTERVAL)
         /\ sinceError' = Min(sinceError + e,
                              TIERED_getBackoffDelay(TIERED_MAX_BACKOFF_ERRORS))
         /\ sincePairingStart' = IF pairingScreenShown
                                 THEN Min(sincePairingStart + e, TIERED_PairingStartCap)
                                 ELSE TIERED_PairingStartCap
         /\ sincePoll' = IF pairingScreenShown
                         THEN Min(sincePoll + e, TIERED_PAIRING_POLL_INTERVAL)
                         ELSE TIERED_PAIRING_POLL_INTERVAL
    /\ ops' = <<>> /\ requests' = <<>>
    /\ UNCHANGED <<wifiConnected, devicePaired, initialDrawDone, partialRefreshCount,
                   consecutiveErrors, pairingScreenShown>>
    /\ UNCHANGED tieredFixed

\* Step 1 when the pass goes on to step 2 or 3: connectWiFi() is called if
\* !wifiConnected (showConnectingScreen, then wm.autoConnect returned true), and
\* WiFi.status() is WL_CONNECTED.
TIERED_ConnectOps == IF wifiConnected THEN <<>> ELSE ScreenOps

\* Step 1 when the pass ends there: autoConnect failed (delay(5000); return), or
\* WiFi.status() != WL_CONNECTED (wifiConnected = false; return).
TIERED_WifiDown ==
    /\ firmware = "tiered"
    /\ wifiConnected' = FALSE
    /\ \E autoConnect \in BOOLEAN :
         /\ wifiConnected => autoConnect
         /\ ops' = TIERED_ConnectOps
    /\ requests' = <<>>
    /\ UNCHANGED <<devicePaired, initialDrawDone, sinceFullRefresh, sinceTier1Refresh,
                   sinceTier2Refresh, sinceTier3Refresh, partialRefreshCount,
                   consecutiveErrors, sinceError, sincePairingStart, pairingScreenShown,
                   sincePoll>>
    /\ UNCHANGED tieredFixed

\* The record requests keeps of the poll of api/pair/<code> (no tier: -1).
PairRequest == [tier |-> -1, inBackoff |-> FALSE]

\* Step 2, if (!devicePaired).  paired: pollPairingServer() returned true.
TIERED_Pairing ==
    /\ firmware = "tiered" /\ ~devicePaired
    /\ wifiConnected' = TRUE
    /\ \E paired \in BOOLEAN :
         LET shows == ~pairingScreenShown
             start == IF shows THEN 0 ELSE sincePairingStart
             poll == IF shows THEN TIERED_PAIRING_POLL_INTERVAL ELSE sincePoll
             shownOps == IF shows THEN ScreenOps ELSE <<>>
             timeout == start > TIERED_PAIRING_TIMEOUT
             polls == ~timeout /\ poll >= TIERED_PAIRING_POLL_INTERVAL
         IN /\ ~polls => ~paired
            /\ pairingScreenShown' = ~timeout
            /\ sincePairingStart' = IF timeout THEN TIERED_PairingStartCap ELSE start
            /\ sincePoll' = IF timeout THEN TIERED_PAIRING_POLL_INTERVAL
                            ELSE IF polls THEN 0 ELSE poll
            /\ sinceFullRefresh' = IF shows THEN 0 ELSE sinceFullRefresh
            /\ devicePaired' = paired
            /\ initialDrawDone' = IF paired THEN FALSE ELSE initialDrawDone
            /\ requests' = IF polls THEN <<PairRequest>> ELSE <<>>
            /\ ops' = TIERED_ConnectOps \o shownOps
                      \o (IF paired THEN ScreenOps ELSE <<>>)
    /\ UNCHANGED <<sinceTier1Refresh, sinceTier2Refresh, sinceTier3Refresh,
                   partialRefreshCount, consecutiveErrors, sinceError>>
    /\ UNCHANGED tieredFixed

\* The test of lines 190-196: consecutiveErrors > 0 and
\* now - lastErrorTime < getBackoffDelay().
TIERED_InBackoff(errors, elapsed) ==
    errors > 0 /\ elapsed < TIERED_getBackoffDelay(errors)

\* bool needsFull of step 3.
TIERED_needsFull ==
    \/ ~initialDrawDone
    \/ sinceFullRefresh >= TIERED_FULL_REFRESH_INTERVAL
    \/ partialRefreshCount >= TIERED_MAX_PARTIAL_BEFORE_FULL

\* Step 3 while the backoff delay has not elapsed: delay(1000); return.
TIERED_BackoffWait ==
    /\ firmware = "tiered" /\ devicePaired
    /\ wifiConnected' = TRUE
    /\ TIERED_InBackoff(consecutiveErrors, sinceError)
    /\ ops' = TIERED_ConnectOps
    /\ requests' = <<>>
    /\ UNCHANGED <<devicePaired, initialDrawDone, sinceFullRefresh, sinceTier1Refresh,
                   sinceTier2Refresh, sinceTier3Refresh, partialRefreshCount,
                   consecutiveErrors, sinceError, sincePairingStart, pairingScreenShown,
                   sincePoll>>
    /\ UNCHANGED tieredFixed

\* One entry of zones[] after an answer was parsed: zone.tier, zone.changed, and
\* zone.data ("none": nullptr, no "data" member or ZONE_DATA_MAX_LEN characters or
\* more; "bmp": a payload decodeAndDrawZone draws; "bad": one it refuses).
TieredZone(t, ch, d) == [tier |-> t, changed |-> ch, data |-> d]

\* The zones[] contents an answer to a request for tier t leaves (zone.tier is the
\* "tier" member of the zone, and t when it has none).
TieredZoneLists(t) ==
    LET other == (t % 3) + 1
    IN { <<>>,
         <<TieredZone(t, TRUE, "bmp"), TieredZone(other, TRUE, "bmp"),
           TieredZone(t, TRUE, "bmp"), TieredZone(t, TRUE, "none"),
           TieredZone(t, TRUE, "bmp")>>,
         <<TieredZone(t, FALSE, "bmp"), TieredZone(t, FALSE, "bad"),
           TieredZone(t, FALSE, "bmp")>> }

\* The outcomes of fetchZonesForTier(t, false) and of fetchAllZones() (t = 1: the
\* tier of a zone plays no part in a full refresh).  A failed fetch leaves zones[]
\* as it was, and no code reads it before the next successful fetch.
TierAnswers(t) ==
    {[ok |-> FALSE, zones |-> <<>>]} \cup [ok : {TRUE}, zones : TieredZoneLists(t)]

\* The record requests keeps of one fetch: the tier (0 for fetchAllZones), the
\* answer of the backoff test on the globals as they are when the fetch is issued,
\* the outcome, and the indices of zones[] the loop after the fetch handled.
TierFetch(t, errors, elapsed, a, handled) ==
    [tier |-> t, inBackoff |-> TIERED_InBackoff(errors, elapsed), ok |-> a.ok,
     zones |-> a.zones, handled |-> handled]

\* The zones the loop of a full refresh passes to decodeAndDrawZone.
TIERED_FullZones(zones) == {i \in 1..Len(zones) : zones[i].data # "none"}

\* for (i...) if (zones[i].data) decodeAndDrawZone(zones[i]); from index i on.
RECURSIVE TIERED_DrawAll(_, _)
TIERED_DrawAll(i, zones) ==
    IF i > Len(zones) THEN <<>>
    ELSE (IF zones[i].data = "bmp" THEN <<LoadBMP(i)>> ELSE <<>>)
         \o TIERED_DrawAll(i + 1, zones)

\* Step 3, if (needsFull).  a: what fetchAllZones() returned and left in zones[].
TIERED_FullRefresh ==
    /\ firmware = "tiered" /\ devicePaired
    /\ wifiConnected' = TRUE
    /\ ~TIERED_InBackoff(consecutiveErrors, sinceError)
    /\ TIERED_needsFull
    /\ \E a \in TierAnswers(1) :
         /\ requests' = <<TierFetch(0, consecutiveErrors, sinceError, a,
                                    IF a.ok THEN TIERED_FullZones(a.zones) ELSE {})>>
         /\ IF a.ok
            THEN /\ consecutiveErrors' = 0
                 /\ ops' = TIERED_ConnectOps \o TIERED_DrawAll(1, a.zones)
                           \o <<RefreshFull>>
                 /\ sinceFullRefresh' = 0
                 /\ sinceTier1Refresh' = 0 /\ sinceTier2Refresh' = 0
                 /\ sinceTier3Refresh' = 0
                 /\ partialRefreshCount' = 0
                 /\ initialDrawDone' = TRUE
                 /\ UNCHANGED sinceError
            ELSE /\ consecutiveErrors < MaxErrors
                 /\ consecutiveErrors' = consecutiveErrors + 1
                 /\ sinceError' = 0
                 /\ ops' = TIERED_ConnectOps
                 /\ UNCHANGED <<sinceFullRefresh, sinceTier1Refresh, sinceTier2Refresh,
                                sinceTier3Refresh, partialRefreshCount, initialDrawDone>>
    /\ UNCHANGED <<devicePaired, sincePairingStart, pairingScreenShown, sincePoll>>
    /\ UNCHANGED tieredFixed

\* Variant of the tier 2 loop that does not read zones[i].changed.
TIERED_TierZones_AnyChanged(t, zones) ==
    {i \in 1..Len(zones) : zones[i].tier = t /\ zones[i].data # "none"}

\* The zones the loop of the tier t block passes to flashAndRefreshZone:
\* zones[i].tier == t && zones[i].data, and for tier 2 also zones[i].changed.
TIERED_TierZones(t, zones) ==
    {i \in 1..Len(zones) : /\ zones[i].tier = t
                           /\ t = 2 => zones[i].changed
                           /\ zones[i].data # "none"}

\* void flashAndRefreshZone(Zone&) for a zone of tier t (a refused payload is
\* painted white).
TIERED_flashAndRefreshZone(t, zone) ==
    <<FillRectBlack(t), RefreshPartial(t),
      IF zone.data = "bmp" THEN LoadBMP(t) ELSE <<"fillRect_WHITE", t>>,
      RefreshPartial(t)>>

\* The zone loop of the tier t block, from index i on.
RECURSIVE TIERED_FlashAll(_, _, _)
TIERED_FlashAll(i, t, zones) ==
    IF i > Len(zones) THEN <<>>
    ELSE (IF i \in TIERED_TierZones(t, zones)
          THEN TIERED_flashAndRefreshZone(t, zones[i]) ELSE <<>>)
         \o TIERED_FlashAll(i + 1, t, zones)

\* One of the three blocks of lines 233-291, on the locals and globals of the pass:
\* if (now - lastTierNRefresh >= TIERn_INTERVAL) { if (fetchZonesForTier(n, false))
\* ... else { consecutiveErrors++; lastErrorTime = now; } }.
TIERED_TierBlock(st, t, due, a) ==
    IF ~due THEN st
    ELSE LET handled == IF a.ok THEN TIERED_TierZones(t, a.zones) ELSE {}
             fetched == [st EXCEPT !.requests =
                            Append(@, TierFetch(t, st.consecutiveErrors, st.sinceError,
                                                a, handled))]
         IN IF a.ok
            THEN [fetched EXCEPT !.consecutiveErrors = 0,
                                 !.ops = @ \o TIERED_FlashAll(1, t, a.zones),
                                 !.partialRefreshCount = @ + Cardinality(handled),
                                 !.refreshed = @ \cup {t}]
            ELSE [fetched EXCEPT !.consecutiveErrors = @ + 1,
                                 !.sinceError = 0]

\* Step 3 when no full refresh is needed: tier 1, tier 2, tier 3, delay(5000).
TIERED_TierRefresh ==
    /\ firmware = "tiered" /\ devicePaired
    /\ wifiConnected' = TRUE
    /\ ~TIERED_InBackoff(consecutiveErrors, sinceError)
    /\ ~TIERED_needsFull
    /\ \E a1 \in TierAnswers(1), a2 \in TierAnswers(2), a3 \in TierAnswers(3) :
         LET s0 == [consecutiveErrors |-> consecutiveErrors, sinceError |-> sinceError,
                    partialRefreshCount |-> partialRefreshCount,
                    ops |-> TIERED_ConnectOps, requests |-> <<>>, refreshed |-> {}]
             due1 == sinceTier1Refresh >= TIER1_INTERVAL
             due2 == sinceTier2Refresh >= TIER2_INTERVAL
             due3 == sinceTier3Refresh >= TIER3_INTERVAL
             s1 == TIERED_TierBlock(s0, 1, due1, a1)
             s2 == TIERED_TierBlock(s1, 2, due2, a2)
             s3 == TIERED_TierBlock(s2, 3, due3, a3)
         IN /\ ~due1 => ~a1.ok
            /\ ~due2 => ~a2.ok
            /\ ~due3 => ~a3.ok
            /\ s1.consecutiveErrors <= MaxErrors
            /\ s2.consecutiveErrors <= MaxErrors
            /\ s3.consecutiveErrors <= MaxErrors
            /\ consecutiveErrors' = s3.consecutiveErrors
            /\ sinceError' = s3.sinceError
            /\ partialRefreshCount' = s3.partialRefreshCount
            /\ sinceTier1Refresh' = IF 1 \in s3.refreshed THEN 0 ELSE sinceTier1Refresh
            /\ sinceTier2Refresh' = IF 2 \in s3.refreshed THEN 0 ELSE sinceTier2Refresh
            /\ sinceTier3Refresh' = IF 3 \in s3.refreshed THEN 0 ELSE sinceTier3Refresh
            /\ ops' = s3.ops
            /\ requests' = s3.requests
    /\ UNCHANGED <<devicePaired, initialDrawDone, sinceFullRefresh, sincePairingStart,
                   pairingScreenShown, sincePoll>>
    /\ UNCHANGED tieredFixed

TieredNext ==
    \/ TIERED_Tick
    \/ TIERED_WifiDown
    \/ TIERED_Pairing
    \/ TIERED_BackoffWait
    \/ TIERED_FullRefresh
    \/ TIERED_TierRefresh

SpecTiered == TieredInit /\ [][TieredNext]_vars

\* C28: no fetchAllZones or fetchZonesForTier call is issued while
\* consecutiveErrors > 0 and now - lastErrorTime < getBackoffDelay(); this covers the
\* second and third tier of a pass in which several tiers are due.
C28_NoFetchDuringBackoff ==
    firmware = "tiered" =>
        \A k \in 1..Len(requests) :
            requests[k].tier >= 0 => ~requests[k].inBackoff


(***************************************************************************)
(* main-v7.cpp: the states and the backoff shift                           *)
(***************************************************************************)
\* One pass of loop() of main-v7.cpp, whatever the case.
V7_Pass ==
    V7_StateWifiConnect \/ V7_StateWifiPortal \/ V7_StateFetchZones \/ V7_StateIdle

V7_ReachedStates ==
    {"STATE_WIFI_CONNECT", "STATE_WIFI_PORTAL", "STATE_FETCH_ZONES", "STATE_IDLE"}

\* The pairs (state before a pass, state after it) of the statement.
V7_ListedTransitions ==
    { <<"STATE_WIFI_CONNECT", "STATE_FETCH_ZONES">>,
      <<"STATE_WIFI_CONNECT", "STATE_WIFI_PORTAL">>,
      <<"STATE_WIFI_PORTAL", "STATE_FETCH_ZONES">>,
      <<"STATE_FETCH_ZONES", "STATE_WIFI_CONNECT">>,
      <<"STATE_FETCH_ZONES", "STATE_IDLE">>,
      <<"STATE_FETCH_ZONES", "STATE_FETCH_ZONES">>,
      <<"STATE_IDLE", "STATE_IDLE">>,
      <<"STATE_IDLE", "STATE_FETCH_ZONES">> }

\* C39 as stated: currentState is one of the four states, and no pass of loop() goes
\* from one state to another (or stays) except along the listed pairs.
C39_OnlyListedTransitions ==
    firmware = "v7" =>
        /\ currentState \in V7_ReachedStates
        /\ ~ENABLED (V7_Pass /\ <<currentState, currentState'>> \notin V7_ListedTransitions)

\* C39, amended: currentState is one of the four states (STATE_BOOT, STATE_RENDER and
\* STATE_ERROR are never entered), and every pass of loop() follows a listed pair or
\* stays in STATE_WIFI_PORTAL (the portal pass while WiFi.status() is not connected).
C39_StatesAndTransitions ==
    firmware = "v7" =>
        /\ currentState \in V7_ReachedStates
        /\ ~ENABLED (V7_Pass /\ <<currentState, currentState'>> \notin
                        (V7_ListedTransitions
                           \cup {<<"STATE_WIFI_PORTAL", "STATE_WIFI_PORTAL">>}))

\* The portal is open and a pass can leave the controller there.
C39_Witness ==
    /\ firmware = "v7" /\ currentState = "STATE_WIFI_PORTAL"
    /\ ENABLED (V7_StateWifiPortal /\ currentState' = "STATE_WIFI_PORTAL")

\* C40: consecutiveErrors is never negative, and every call of getBackoffDelay() is
\* made with consecutiveErrors >= 1, so that its shift amount is in 0..4.
C40_BackoffShiftInRange ==
    firmware = "v7" =>
        /\ consecutiveErrors >= 0
        /\ currentState = "STATE_FETCH_ZONES" =>
             \A n \in V7_BackoffCalls :
                 /\ n >= 1
                 /\ V7_BackoffShift(n) \in 0..V7_BACKOFF_MAX_SHIFT

\* A STATE_FETCH_ZONES pass calls getBackoffDelay() after more failures than the
\* shift allows for: the shift is held at 4.
C40_Witness ==
    /\ firmware = "v7" /\ currentState = "STATE_FETCH_ZONES"
    /\ consecutiveErrors = V7_BACKOFF_MAX_SHIFT + 2
    /\ V7_BackoffCalls = {consecutiveErrors}
    /\ V7_BackoffShift(consecutiveErrors) = V7_BACKOFF_MAX_SHIFT


(***************************************************************************)
(* main-tiered.cpp: which zones a pass draws                               *)
(***************************************************************************)
\* How many times the last pass issued the display operation op.
CountOp(op) == Cardinality({k \in 1..Len(ops) : ops[k] = op})

\* The fetches of tier t the last pass made.
TierRecords(t) == {k \in 1..Len(requests) : requests[k].tier = t}

\* C32: outside a full refresh a tier-2 zone is flashed and redrawn only in a pass
\* where tier 2 is due, its fetch succeeded and the zone is marked changed; a zone of
\* tier 1 or 3 that came with data is flashed and redrawn in every pass where its
\* tier is due and the fetch succeeded, whatever its changed flag.
C32_TierTwoOnlyIfChanged ==
    /\ [](firmware = "tiered" =>
            \A t \in 1..3 : \A k \in TierRecords(t) :
               LET r == requests[k]
               IN /\ \A i \in r.handled :
                        /\ r.ok
                        /\ r.zones[i].tier = t /\ r.zones[i].data # "none"
                        /\ t = 2 => r.zones[i].changed
                  /\ (t # 2 /\ r.ok) =>
                        \A i \in 1..Len(r.zones) :
                           (r.zones[i].tier = t /\ r.zones[i].data # "none")
                              => i \in r.handled
                  /\ CountOp(FillRectBlack(t)) = Cardinality(r.handled)
                  /\ CountOp(RefreshPartial(t)) = 2 * Cardinality(r.handled))
    /\ [][firmware = "tiered" =>
            /\ TierRecords(2)' # {} => sinceTier2Refresh >= TIER2_INTERVAL
            /\ TierRecords(1)' # {} => sinceTier1Refresh >= TIER1_INTERVAL
            /\ TierRecords(3)' # {} => sinceTier3Refresh >= TIER3_INTERVAL
            /\ \A t \in 1..3 : TierRecords(t)' = {} => CountOp(FillRectBlack(t))' = 0]_vars

\* One pass fetched tiers 1 and 2 and both answers held unchanged zones with data:
\* the tier-1 zones were flashed, the tier-2 zones were not.
C32_Witness ==
    /\ firmware = "tiered"
    /\ \E k1 \in TierRecords(1), k2 \in TierRecords(2) :
         /\ requests[k1].ok /\ requests[k2].ok
         /\ \E i \in requests[k1].handled : ~requests[k1].zones[i].changed
         /\ \E i \in 1..Len(requests[k2].zones) :
              /\ ~requests[k2].zones[i].changed
              /\ requests[k2].zones[i].data = "bmp"
         /\ requests[k2].handled = {}
         /\ CountOp(FillRectBlack(2)) = 0

\* C34: a full cycle in which no zone was decoded and drawn leaves lastFullRefresh,
\* the tier timers, partialRefreshCount and initialDrawDone as they were (and issues
\* no full panel refresh), also when fetchAllZones succeeded.
C34_FullRefreshNeedsDrawnZone ==
    [][(/\ firmware = "tiered"
        /\ TierRecords(0)' # {}
        /\ \A k \in TierRecords(0)' :
              \A i \in requests'[k].handled : requests'[k].zones[i].data # "bmp")
       => /\ UNCHANGED <<sinceFullRefresh, sinceTier1Refresh, sinceTier2Refresh,
                         sinceTier3Refresh, partialRefreshCount, initialDrawDone>>
          /\ ops' \in {<<>>, ScreenOps}]_vars


\* C35 (main-v7.cpp): every byte fetchAndDrawZone reads from zoneBuffer while drawing
\* lies inside the received payload: 0 <= pixelOffset + srcRow*rowBytes + col/8
\* < bytesRead <= ZONE_BUFFER_SIZE, for all header values.
C35_ReadsInsidePayload ==
    V7_Drew =>
        /\ response.bmp.bytesRead <= V7_ZONE_BUFFER_SIZE
        /\ \A n \in 1..Len(result.draws) :
              /\ 0 <= result.draws[n].byte
              /\ result.draws[n].byte < response.bmp.bytesRead


(***************************************************************************)
(* main-v6.cpp: the time between two metadata checks                       *)
(***************************************************************************)
\* millis() minus the later of lastRefresh (set by a metadata check that succeeded)
\* and lastErrorTime (set by one that failed).
V6_SinceLastCheck == Min(sinceRefresh, sinceError)

\* C33 (main-v6.cpp): two successive metadata checks are separated by at least
\* REFRESH_INTERVAL_MS, or by the backoff delay when the earlier attempt drew no
\* zone: whenever a pass makes the metadata check, at least the smaller of the two
\* delays has passed since the check before it.
C33_AttemptsRateLimited ==
    [][(firmware = "v6" /\ response'.kind = "metadata")
          => V6_SinceLastCheck >= Min(V6_REFRESH_INTERVAL_MS, V6_getBackoffDelay(1))]_vars


\* ---------------------------------------------------------------------------
\* main-ble.cpp: provisioning over BLE.

\* A pass of loop() in STATE_BLE_PROVISION that ends in STATE_WIFI_CONNECT.
BLE_LeavesProvisioning ==
    /\ firmware = "ble"
    /\ currentState = "STATE_BLE_PROVISION"
    /\ currentState' = "STATE_WIFI_CONNECT"

\* C31: the firmware leaves STATE_BLE_PROVISION for STATE_WIFI_CONNECT only with a
\* non-empty SSID, also after three failed connections cleared credentials that
\* were received over BLE earlier in the same boot.
C31_LeavesProvisioningWithSsid == [][BLE_LeavesProvisioning => wifiSSID' # ""]_vars

\* C36: once the SSID, the password and the URL have each been written with a value,
\* in whatever order, and the callback has returned, bleCredentialsReceived is set.
C36_EveryWriteOrderCompletes ==
    (firmware = "ble" /\ bleWritten = BLE_Characteristics /\ blePc = "idle")
        => bleCredentialsReceived

\* C37: when loop() sees bleCredentialsReceived and tears BLE down, the callback
\* has already returned from saveSettings() and notify().
C37_TeardownAfterCallback ==
    [][(firmware = "ble" /\ bleInitialized /\ ~bleInitialized') => blePc = "idle"]_vars

\* loop() is called again and again, time passes, and a callback that has started
\* runs on; a central is free never to write.
BleFairness ==
    /\ WF_vars(BLE_Tick)
    /\ WF_vars(BLE_onWriteSave)
    /\ WF_vars(BLE_onWriteNotify)
    /\ WF_vars(BLE_StateBleProvision)
    /\ WF_vars(BLE_StateWifiConnect)
    /\ WF_vars(BLE_StateFetchZones)
    /\ WF_vars(BLE_StateRender)
    /\ WF_vars(BLE_StateIdle)

SpecBleLive == BleInit /\ [][BleNext]_vars /\ BleFairness

\* A refresh in STATE_IDLE in which the request of every zone failed, as it does
\* when the WiFi link is down.
BLE_WifiLostInIdle ==
    /\ firmware = "ble"
    /\ currentState = "STATE_IDLE"
    /\ failed = 1..BLE_ZONE_COUNT

\* C38: when the WiFi link is lost in STATE_IDLE the firmware is eventually back in
\* STATE_WIFI_CONNECT, where it reconnects.
C38_IdleReconnects == BLE_WifiLostInIdle ~> (currentState = "STATE_WIFI_CONNECT")

====
